---- MODULE Spec2Model ----
(***************************************************************************)
(* Model of the Modelibr Blender add-on: the background task executor      *)
(* (async_handler.py), the async modal operators that drive it             *)
(* (operators/import_ops.py, operators/upload_ops.py) and the texture-set  *)
(* upload flow (operators/upload_ops.py, texture_utils.py).                *)
(*                                                                         *)
(* Progress values are stored in hundredths: 0.0 is 0, 0.5 is 50, 1.0 is   *)
(* 100.  An optional argument (None or a value) is a set with at most one  *)
(* element.                                                                *)
(***************************************************************************)
EXTENDS Integers, Sequences, FiniteSets, TLC

\* ---------------------------------------------------------------- bounds
\* Number of task objects (one per modal operator instance).
NumTasks == 2
\* How many times the harness may call start() on one task.
MaxStarts == 2
\* Largest number of textures an ImportDownloadTask downloads.
MaxTextures == 1
\* Number of iterations of the polling worker of the run() docstring.
PollIters == 2

Tasks == 1..NumTasks
Ops == 1..NumTasks
Threads == 1..MaxStarts

\* --------------------------------------------------------- TaskStatus
PENDING == "Pending"
RUNNING == "Running"
COMPLETED == "Completed"
FAILED == "Failed"
CANCELLED == "Cancelled"
TaskStatus == {PENDING, RUNNING, COMPLETED, FAILED, CANCELLED}

\* Position of a status in the order Pending -> Running -> terminal.
StatusRank(st) == IF st = PENDING THEN 0 ELSE IF st = RUNNING THEN 1 ELSE 2

\* Result payloads (the `result` field is Any; None is NoResult).
NoResult == [type |-> "None", version_id |-> 0]
DoneResult == [type |-> "done", version_id |-> 0]
ImportResult == [type |-> "import", version_id |-> 0]
UploadResult(v) == [type |-> "upload", version_id |-> v]

\* ProgressState() with its dataclass defaults.
ProgressState == [status |-> PENDING, progress |-> 0, message |-> "",
                  error |-> "", result |-> NoResult]

\* A clamp that only cuts at the top.
ClampUpperOnly(p) == IF p > 100 THEN 100 ELSE p

\* min(1.0, max(0.0, progress)), in hundredths.
Clamp(p) == IF p < 0 THEN 0 ELSE IF p > 100 THEN 100 ELSE p

Val(opt) == CHOOSE x \in opt : TRUE

\* The field assignments a tracker method makes while it holds the lock,
\* in program order, as <<field, value>> pairs.
\* update(progress, message, status): each argument is merged only when it
\* is not None.
UpdateWrites(progress, message, status) ==
  (IF progress # {} THEN << <<"progress", Clamp(Val(progress))>> >> ELSE << >>)
  \o (IF message # {} THEN << <<"message", Val(message)>> >> ELSE << >>)
  \o (IF status # {} THEN << <<"status", Val(status)>> >> ELSE << >>)

SetRunningWrites(message) == UpdateWrites({0}, {message}, {RUNNING})

SetCompletedWrites(result) ==
  << <<"status", COMPLETED>>, <<"progress", 100>>,
     <<"message", "Complete">>, <<"result", result>> >>

SetFailedWrites(error) ==
  << <<"status", FAILED>>, <<"error", error>>,
     <<"message", "Error: " \o error>> >>

SetCancelledWrites == UpdateWrites({}, {"Cancelled"}, {CANCELLED})

\* One assignment self._state.<field> = value.
WriteField(s, fv) == [s EXCEPT ![fv[1]] = fv[2]]

RECURSIVE ApplyWrites(_, _)
ApplyWrites(s, writes) ==
  IF Len(writes) = 0 THEN s
  ELSE ApplyWrites(WriteField(s, Head(writes)), Tail(writes))

\* The tracker methods as whole operations (each runs under the lock).
Update(s, progress, message, status) ==
  ApplyWrites(s, UpdateWrites(progress, message, status))

SetRunning(s, message) == ApplyWrites(s, SetRunningWrites(message))

SetCompleted(s, result) == ApplyWrites(s, SetCompletedWrites(result))

SetFailed(s, error) == ApplyWrites(s, SetFailedWrites(error))

SetCancelled(s) == ApplyWrites(s, SetCancelledWrites)

IsRunning(s) == s.status = RUNNING

IsFinished(s) == s.status \in {COMPLETED, FAILED, CANCELLED}

\* ------------------------------------------------------------- state
VARIABLES
  state,      \* state[t]: the ProgressState held by task t's tracker
  kind,       \* kind[t]: the BackgroundTask subclass of task t
  ntex,       \* ntex[t]: len(self.textures) of an ImportDownloadTask
  blend,      \* blend[t]: UploadTask.blend_path is set
  thread,     \* thread[t]: index of self._thread, 0 for None
  worker,     \* worker[t][k]: position and locals of the k-th thread of t
  cancel,     \* cancel[t]: the _cancel_requested event
  escaped,    \* escaped[t]: an exception left _run_wrapper of task t
  startCalls, \* startCalls[t]: number of start() calls made on t
  registry,   \* _active_tasks: task id -> task (0: no entry)
  op,         \* op[o]: fields of modal operator instance o
  scene,      \* scene properties written by foreground finalization
  trk,        \* the _state of a ProgressTracker shared by several threads
  lock,       \* holder of that tracker's _lock (0: free)
  wr,         \* wr[w]: the assignments writer thread w still has to make
  rd,         \* the get_state() call of the reader thread
  committed,  \* trk as it stood when a writer last released the lock
  slots,      \* slots[i]: the texture slots of the model objects' materials
  meta,       \* texture-set metadata stored on the model objects
  up,         \* position and locals of the texture handling of an upload
  analysis,   \* the analysis dict handed to classify_textures_for_export
  originalTypes,  \* its original_texture_types argument ({}: None or empty)
  classification, \* what the last classify_textures_for_export returned
  graph,      \* the links of the node tree of a material
  analyzed,   \* what analyze_material_textures returned for graph
  linkOrder,  \* which link of the image's Color output was made first
  mat,        \* a material with several image nodes, and its analysis
  orm,        \* the images of channel packing: sources, packed, downloaded
  serverRoles \* the slots the objects' original texture set has a file for

cfgVars == <<kind, ntex, blend>>
taskVars == <<state, cfgVars, thread, worker, cancel, escaped, startCalls>>
fgVars == <<registry, op, scene>>
trkVars == <<trk, lock, wr, rd, committed>>
upVars == <<slots, meta, up>>
texVars == <<analysis, originalTypes, classification, graph, analyzed>>
imgVars == <<linkOrder, mat, orm, serverRoles>>
otherVars == <<fgVars, trkVars, upVars, texVars, imgVars>>
vars == <<taskVars, otherVars>>

\* Subclasses of BackgroundTask: the two of the add-on, the two of the
\* unit tests and the polling worker described in run()'s docstring.
Kinds == {"import", "upload", "simple", "failing", "polling"}

NoWorker == [pc |-> "unborn", i |-> 0, exc |-> "", version_id |-> 0]

Alive(w) == w.pc \notin {"unborn", "dead"}

\* threading.Thread.is_alive() of self._thread.
ThreadAlive(t) == thread[t] # 0 /\ Alive(worker[t][thread[t]])

LiveWorkers(t) == {k \in Threads : Alive(worker[t][k])}

\* Error texts: str(e) of an ApiError, and of the unit test's ValueError.
ApiErrorText == "HTTP 500: error"
TestErrorText == "Test error"

\* Version ids a create_version response can carry (0: no id found).
VersionIds == {0, 7}

Goto(t, k, pc) == worker' = [worker EXCEPT ![t][k].pc = pc]

\* ------------------------------------------------- BackgroundTask API
\* start() without the is_alive() test.
StartNeverReturnsEarly(t) == FALSE

\* The early return of start(): a worker of this task is still alive.
StartReturnsEarly(t) == ThreadAlive(t)

\* BackgroundTask.start(): clear the cancel event, create and start one
\* new Thread whose target is _run_wrapper.
StartBody(t) ==
  /\ startCalls' = [startCalls EXCEPT ![t] = @ + 1]
  /\ IF StartReturnsEarly(t)
     THEN UNCHANGED <<cancel, thread, worker>>
     ELSE LET k == CHOOSE j \in Threads :
                     /\ worker[t][j].pc = "unborn"
                     /\ \A h \in Threads : h < j => worker[t][h].pc # "unborn"
          IN /\ cancel' = [cancel EXCEPT ![t] = FALSE]
             /\ thread' = [thread EXCEPT ![t] = k]
             /\ worker' = [worker EXCEPT ![t][k].pc = "wrap_set_running"]

\* start() called directly on a task object (as the unit tests do).
Start(t) ==
  /\ startCalls[t] < MaxStarts
  /\ StartBody(t)
  /\ UNCHANGED <<state, cfgVars, escaped, otherVars>>

\* A cancel() that also writes the status itself.
CancelAlsoSetsStatus(t) ==
  /\ cancel' = [cancel EXCEPT ![t] = TRUE]
  /\ state' = [state EXCEPT ![t] = SetCancelled(@)]
  /\ UNCHANGED <<thread, worker>>

\* BackgroundTask.cancel(): set the event, nothing else.
CancelEffect(t) ==
  /\ cancel' = [cancel EXCEPT ![t] = TRUE]
  /\ UNCHANGED <<state, thread, worker>>

\* cancel() called directly on a task object.
Cancel(t) ==
  /\ ~cancel[t]
  /\ CancelEffect(t)
  /\ UNCHANGED <<cfgVars, escaped, startCalls, otherVars>>

\* A should_cancel that never reports the request.
ShouldCancelNever(t) == FALSE

\* BackgroundTask.should_cancel.
ShouldCancel(t) == cancel[t]

\* ------------------------------------------------------ _run_wrapper
\* try: self.tracker.set_running()
WrapSetRunning(t, k) ==
  /\ worker[t][k].pc = "wrap_set_running"
  /\ state' = [state EXCEPT ![t] = SetRunning(@, "Starting...")]
  /\ Goto(t, k, "run_begin")
  /\ UNCHANGED <<cfgVars, thread, cancel, escaped, startCalls, otherVars>>

\* A wrapper that marks the task completed whatever run() left.
WrapAlwaysCompletes(t, k) ==
  /\ worker[t][k].pc = "wrap_check"
  /\ Goto(t, k, "wrap_complete")
  /\ UNCHANGED <<state, cfgVars, thread, cancel, escaped, startCalls, otherVars>>

\* if not self.tracker.is_finished: (run() has returned normally)
WrapCheckFinished(t, k) ==
  /\ worker[t][k].pc = "wrap_check"
  /\ Goto(t, k, IF IsFinished(state[t]) THEN "dead" ELSE "wrap_complete")
  /\ UNCHANGED <<state, cfgVars, thread, cancel, escaped, startCalls, otherVars>>

\* self.tracker.set_completed()
WrapSetCompleted(t, k) ==
  /\ worker[t][k].pc = "wrap_complete"
  /\ state' = [state EXCEPT ![t] = SetCompleted(@, NoResult)]
  /\ Goto(t, k, "dead")
  /\ UNCHANGED <<cfgVars, thread, cancel, escaped, startCalls, otherVars>>

\* A wrapper without the except clause: the exception leaves the thread.
WrapHandlerMissing(s, e) == [st |-> s, escapes |-> TRUE]

\* What the wrapper does with an exception that left run():
\* except Exception as e: self.tracker.set_failed(str(e)).
WrapHandler(s, e) == [st |-> SetFailed(s, e), escapes |-> FALSE]

WrapExcept(t, k) ==
  /\ worker[t][k].pc = "wrap_except"
  /\ state' = [state EXCEPT ![t] = WrapHandler(@, worker[t][k].exc).st]
  /\ escaped' = [escaped EXCEPT ![t] = @ \/ WrapHandler(state[t], worker[t][k].exc).escapes]
  /\ Goto(t, k, "dead")
  /\ UNCHANGED <<cfgVars, thread, cancel, startCalls, otherVars>>

\* ---------------------------------------------- test-suite subclasses
\* SimpleTask.run(): update(progress=0.5, message="Working...")
SimpleUpdate(t, k) ==
  /\ kind[t] = "simple"
  /\ worker[t][k].pc = "run_begin"
  /\ state' = [state EXCEPT ![t] = Update(@, {50}, {"Working..."}, {})]
  /\ Goto(t, k, "run_complete")
  /\ UNCHANGED <<cfgVars, thread, cancel, escaped, startCalls, otherVars>>

\* SimpleTask.run(): set_completed("done"); run() returns.
SimpleComplete(t, k) ==
  /\ kind[t] = "simple"
  /\ worker[t][k].pc = "run_complete"
  /\ state' = [state EXCEPT ![t] = SetCompleted(@, DoneResult)]
  /\ Goto(t, k, "wrap_check")
  /\ UNCHANGED <<cfgVars, thread, cancel, escaped, startCalls, otherVars>>

\* FailingTask.run(): raise ValueError("Test error").  BackgroundTask.run
\* itself raises NotImplementedError the same way.
FailingRaise(t, k) ==
  /\ kind[t] = "failing"
  /\ worker[t][k].pc = "run_begin"
  /\ worker' = [worker EXCEPT ![t][k].pc = "wrap_except",
                              ![t][k].exc = TestErrorText]
  /\ UNCHANGED <<state, cfgVars, thread, cancel, escaped, startCalls, otherVars>>

\* The worker of run()'s docstring: every iteration first checks
\* should_cancel (set_cancelled and return), then reports progress.
PollingIter(t, k) ==
  /\ kind[t] = "polling"
  /\ worker[t][k].pc = "run_begin"
  /\ LET w == worker[t][k] IN
     IF w.i = PollIters
     THEN /\ Goto(t, k, "wrap_check")
          /\ UNCHANGED state
     ELSE IF ShouldCancel(t)
     THEN /\ state' = [state EXCEPT ![t] = SetCancelled(@)]
          /\ Goto(t, k, "wrap_check")
     ELSE /\ Goto(t, k, "poll_work")
          /\ UNCHANGED state
  /\ UNCHANGED <<cfgVars, thread, cancel, escaped, startCalls, otherVars>>

PollingWork(t, k) ==
  /\ kind[t] = "polling"
  /\ worker[t][k].pc = "poll_work"
  /\ LET w == worker[t][k] IN
     /\ state' = [state EXCEPT ![t] =
                    Update(@, {((w.i + 1) * 100) \div PollIters}, {"Halfway done"}, {})]
     /\ worker' = [worker EXCEPT ![t][k].pc = "run_begin", ![t][k].i = w.i + 1]
  /\ UNCHANGED <<cfgVars, thread, cancel, escaped, startCalls, otherVars>>

\* ------------------------------------------------ ImportDownloadTask
\* downloaded / total_files, in hundredths.
ImportProgress(downloaded, t) == (downloaded * 100) \div (1 + ntex[t])

\* except Exception as e: self.tracker.set_failed(str(e)) -- the handler
\* that encloses the whole body of ImportDownloadTask.run and of
\* UploadTask.run; run() then returns normally.
RunExcept(t, k) ==
  /\ kind[t] \in {"import", "upload"}
  /\ worker[t][k].pc = "run_except"
  /\ state' = [state EXCEPT ![t] = SetFailed(@, worker[t][k].exc)]
  /\ Goto(t, k, "wrap_check")
  /\ UNCHANGED <<cfgVars, thread, cancel, escaped, startCalls, otherVars>>

\* update(progress=0.0, message="Downloading <filename>...")
ImportBegin(t, k) ==
  /\ kind[t] = "import"
  /\ worker[t][k].pc = "run_begin"
  /\ state' = [state EXCEPT ![t] = Update(@, {0}, {"Downloading model..."}, {})]
  /\ Goto(t, k, "dl_model")
  /\ UNCHANGED <<cfgVars, thread, cancel, escaped, startCalls, otherVars>>

\* client.download_file(model file); downloaded += 1; update(progress).
\* Any exception of the download reaches run()'s handler.
ImportDownloadModel(t, k) ==
  /\ kind[t] = "import"
  /\ worker[t][k].pc = "dl_model"
  /\ \/ /\ state' = [state EXCEPT ![t] = Update(@, {ImportProgress(1, t)}, {}, {})]
        /\ Goto(t, k, "dl_check")
     \/ /\ worker' = [worker EXCEPT ![t][k].pc = "run_except",
                                    ![t][k].exc = ApiErrorText]
        /\ UNCHANGED state
  /\ UNCHANGED <<cfgVars, thread, cancel, escaped, startCalls, otherVars>>

\* if self.should_cancel: set_cancelled(); return  (after the model file)
ImportCheckCancel(t, k) ==
  /\ kind[t] = "import"
  /\ worker[t][k].pc = "dl_check"
  /\ IF ShouldCancel(t)
     THEN /\ state' = [state EXCEPT ![t] = SetCancelled(@)]
          /\ Goto(t, k, "wrap_check")
     ELSE /\ Goto(t, k, "tex_loop")
          /\ UNCHANGED state
  /\ UNCHANGED <<cfgVars, thread, cancel, escaped, startCalls, otherVars>>

\* for i, tex in enumerate(self.textures): the cancel check at the head of
\* the body, then update(progress, "Downloading texture i+1/n...").
\* After the last texture: set_completed({...}).
ImportLoopHead(t, k) ==
  /\ kind[t] = "import"
  /\ worker[t][k].pc = "tex_loop"
  /\ LET w == worker[t][k] IN
     IF w.i = ntex[t]
     THEN /\ state' = [state EXCEPT ![t] = SetCompleted(@, ImportResult)]
          /\ Goto(t, k, "wrap_check")
     ELSE IF ShouldCancel(t)
     THEN /\ state' = [state EXCEPT ![t] = SetCancelled(@)]
          /\ Goto(t, k, "wrap_check")
     ELSE /\ state' = [state EXCEPT ![t] =
                         Update(@, {ImportProgress(1 + w.i, t)}, {"Downloading texture..."}, {})]
          /\ Goto(t, k, "tex_download")
  /\ UNCHANGED <<cfgVars, thread, cancel, escaped, startCalls, otherVars>>

\* download_file(texture): an ApiError is logged and swallowed; then
\* downloaded += 1; update(progress).
ImportDownloadTexture(t, k) ==
  /\ kind[t] = "import"
  /\ worker[t][k].pc = "tex_download"
  /\ LET w == worker[t][k] IN
     /\ state' = [state EXCEPT ![t] = Update(@, {ImportProgress(2 + w.i, t)}, {}, {})]
     /\ worker' = [worker EXCEPT ![t][k].pc = "tex_loop", ![t][k].i = w.i + 1]
  /\ UNCHANGED <<cfgVars, thread, cancel, escaped, startCalls, otherVars>>

\* -------------------------------------------------------- UploadTask
\* current_step / total_steps, in hundredths.
UploadProgress(step, t) == (step * 100) \div (IF blend[t] THEN 2 ELSE 1)

\* update(progress=0.0, message="Uploading ..."); then the first
\* should_cancel check.
UploadBegin(t, k) ==
  /\ kind[t] = "upload"
  /\ worker[t][k].pc = "run_begin"
  /\ state' = [state EXCEPT ![t] = Update(@, {0}, {"Uploading model..."}, {})]
  /\ Goto(t, k, "up_check1")
  /\ UNCHANGED <<cfgVars, thread, cancel, escaped, startCalls, otherVars>>

UploadCheckCancel1(t, k) ==
  /\ kind[t] = "upload"
  /\ worker[t][k].pc = "up_check1"
  /\ IF ShouldCancel(t)
     THEN /\ state' = [state EXCEPT ![t] = SetCancelled(@)]
          /\ Goto(t, k, "wrap_check")
     ELSE /\ Goto(t, k, "up_create")
          /\ UNCHANGED state
  /\ UNCHANGED <<cfgVars, thread, cancel, escaped, startCalls, otherVars>>

\* result = client.create_version(...); self.version_id = extract_id(result);
\* current_step += 1; update(progress).
UploadCreateVersion(t, k) ==
  /\ kind[t] = "upload"
  /\ worker[t][k].pc = "up_create"
  /\ \/ \E v \in VersionIds :
          /\ state' = [state EXCEPT ![t] = Update(@, {UploadProgress(1, t)}, {}, {})]
          /\ worker' = [worker EXCEPT ![t][k].pc = "up_check2",
                                      ![t][k].version_id = v]
     \/ /\ worker' = [worker EXCEPT ![t][k].pc = "run_except",
                                    ![t][k].exc = ApiErrorText]
        /\ UNCHANGED state
  /\ UNCHANGED <<cfgVars, thread, cancel, escaped, startCalls, otherVars>>

\* The second should_cancel check; then, without a .blend file to upload,
\* set_completed({'version_id': ...}).
UploadCheckCancel2(t, k) ==
  /\ kind[t] = "upload"
  /\ worker[t][k].pc = "up_check2"
  /\ LET w == worker[t][k] IN
     IF ShouldCancel(t)
     THEN /\ state' = [state EXCEPT ![t] = SetCancelled(@)]
          /\ Goto(t, k, "wrap_check")
     ELSE IF blend[t] /\ w.version_id > 0
     THEN /\ state' = [state EXCEPT ![t] =
                         Update(@, {UploadProgress(1, t)}, {"Uploading .blend file..."}, {})]
          /\ Goto(t, k, "up_blend")
     ELSE /\ state' = [state EXCEPT ![t] = SetCompleted(@, UploadResult(w.version_id))]
          /\ Goto(t, k, "wrap_check")
  /\ UNCHANGED <<cfgVars, thread, cancel, escaped, startCalls, otherVars>>

\* add_file_to_version(.blend) (an ApiError is logged and swallowed);
\* current_step += 1; update(progress).
UploadBlend(t, k) ==
  /\ kind[t] = "upload"
  /\ worker[t][k].pc = "up_blend"
  /\ state' = [state EXCEPT ![t] = Update(@, {UploadProgress(2, t)}, {}, {})]
  /\ Goto(t, k, "up_complete")
  /\ UNCHANGED <<cfgVars, thread, cancel, escaped, startCalls, otherVars>>

\* A worker that stores the new version id in the scene properties itself.
UploadCompleteWritesScene(t, k) ==
  /\ kind[t] = "upload"
  /\ worker[t][k].pc = "up_complete"
  /\ state' = [state EXCEPT ![t] = SetCompleted(@, UploadResult(worker[t][k].version_id))]
  /\ scene' = [scene EXCEPT !.current_version_id = worker[t][k].version_id]
  /\ Goto(t, k, "wrap_check")
  /\ UNCHANGED <<cfgVars, thread, cancel, escaped, startCalls, registry, op,
                 trkVars, upVars, texVars, imgVars>>

\* set_completed({'version_id': self.version_id})
UploadComplete(t, k) ==
  /\ kind[t] = "upload"
  /\ worker[t][k].pc = "up_complete"
  /\ state' = [state EXCEPT ![t] = SetCompleted(@, UploadResult(worker[t][k].version_id))]
  /\ Goto(t, k, "wrap_check")
  /\ UNCHANGED <<cfgVars, thread, cancel, escaped, startCalls, otherVars>>

\* ------------------------------------------------ modal operator state
\* Model ids the operators work on.
NumModels == 1
ModelIds == 1..NumModels

\* Registry keys f"import_{model_id}" and f"upload_{model_id}".
TaskIds == {"import", "upload"} \X ModelIds

\* Operator instance before invoke(): _timer = None, _task = None.
\* phase: "idle" before invoke(), "modal" while the modal handler is
\* installed, "done" once a handler has returned FINISHED or CANCELLED
\* (ret).  finalized counts the calls of _complete_import /
\* _complete_upload; aborted records that the ESC branch has run.
NewOperator == [phase |-> "idle", model_id |-> 0, timer |-> FALSE, task |-> 0,
                ret |-> "", finalized |-> 0, aborted |-> FALSE]

NewScene == [current_model_id |-> 0, current_version_id |-> 0]

\* --------------------- one ProgressTracker shared by several threads
\* Number of threads that write the shared tracker.
NumWriters == 2
Writers == 1..NumWriters
\* Lock holder id of the reader thread.
Reader == NumWriters + 1

NoSnapshot == [pc |-> "idle", snap |-> ProgressState]

InitTracker ==
  /\ trk = ProgressState
  /\ lock = 0
  /\ wr = [w \in Writers |-> << >>]
  /\ rd = NoSnapshot
  /\ committed = ProgressState

\* Progress arguments of update(), in hundredths: -0.5, 0.5 and 1.5.
ProgressInputs == {-50, 50, 150}

\* The calls the writer threads make.
WriterCalls ==
  {UpdateWrites(p, m, {}) : p \in {{}} \cup {{x} : x \in ProgressInputs},
                            m \in {{}, {"Working..."}}}
  \cup {SetRunningWrites("Starting..."), SetCompletedWrites(DoneResult),
        SetFailedWrites(TestErrorText), SetCancelledWrites}

\* A reader that does not wait for the lock.
ReaderIgnoresLock == TRUE

\* `with self._lock:` in get_state(): the reader proceeds only when the
\* lock is free.
ReaderMayEnter == lock = 0

\* A writer enters `with self._lock:` of update / set_completed /
\* set_failed (set_running and set_cancelled go through update).
WriterAcquire(w) ==
  /\ lock = 0
  /\ \E call \in WriterCalls :
       /\ Len(call) > 0
       /\ wr' = [wr EXCEPT ![w] = call]
  /\ lock' = w
  /\ UNCHANGED <<trk, rd, committed, taskVars, fgVars, upVars, texVars, imgVars>>

\* The next assignment of the call, made while holding the lock.
WriterAssign(w) ==
  /\ lock = w
  /\ Len(wr[w]) > 0
  /\ trk' = WriteField(trk, Head(wr[w]))
  /\ wr' = [wr EXCEPT ![w] = Tail(@)]
  /\ UNCHANGED <<lock, rd, committed, taskVars, fgVars, upVars, texVars, imgVars>>

\* Leaving the with block releases the lock.
WriterRelease(w) ==
  /\ lock = w
  /\ Len(wr[w]) = 0
  /\ lock' = 0
  /\ committed' = trk
  /\ UNCHANGED <<trk, wr, rd, taskVars, fgVars, upVars, texVars, imgVars>>

\* get_state(): `with self._lock:`
ReaderAcquire ==
  /\ rd.pc = "idle"
  /\ ReaderMayEnter
  /\ lock' = IF lock = 0 THEN Reader ELSE lock
  /\ rd' = [rd EXCEPT !.pc = "status"]
  /\ UNCHANGED <<trk, wr, committed, taskVars, fgVars, upVars, texVars, imgVars>>

\* The constructor arguments of the copy are read one after the other.
NextField(f) ==
  IF f = "status" THEN "progress"
  ELSE IF f = "progress" THEN "message"
  ELSE IF f = "message" THEN "error"
  ELSE IF f = "error" THEN "result"
  ELSE "return"

ReaderCopy ==
  /\ rd.pc \in {"status", "progress", "message", "error", "result"}
  /\ rd' = [pc |-> NextField(rd.pc), snap |-> WriteField(rd.snap, <<rd.pc, trk[rd.pc]>>)]
  /\ UNCHANGED <<trk, lock, wr, committed, taskVars, fgVars, upVars, texVars, imgVars>>

\* return ProgressState(...): the with block is left, the caller keeps the
\* copy until its next call.
ReaderReturn ==
  /\ rd.pc = "return"
  /\ lock' = IF lock = Reader THEN 0 ELSE lock
  /\ rd' = [rd EXCEPT !.pc = "idle"]
  /\ UNCHANGED <<trk, wr, committed, taskVars, fgVars, upVars, texVars, imgVars>>

NextTracker ==
  \/ \E w \in Writers : WriterAcquire(w) \/ WriterAssign(w) \/ WriterRelease(w)
  \/ ReaderAcquire
  \/ ReaderCopy
  \/ ReaderReturn

\* ------------------- texture handling of MODELIBR_OT_upload_version
\* Number of image textures in the materials of the model objects.
NumSlots == 2
Slots == 1..NumSlots

\* The texture set id stored on objects that were imported with textures,
\* and the id the server gives to a texture set created by this upload.
OrigSetId == 5
NewSetId == 9

NoSlot == [present |-> FALSE, file_id |-> 0, original_hash |-> "", current_hash |-> ""]

\* A slot of the analysis: file_id is the image's modelibr_file_id (0 when
\* absent), original_hash its modelibr_original_hash, current_hash what
\* calculate_texture_hash(image) returns now.
SlotValues ==
  {NoSlot} \cup
  [present : {TRUE}, file_id : {0, 11}, original_hash : {"", "H1"},
   current_hash : {"H1", "H2"}]

NoMeta == [texture_set_id |-> 0, texture_hash |-> ""]
OrigMeta == [texture_set_id |-> OrigSetId, texture_hash |-> "old"]

NoUpload == [pc |-> "idle", path |-> "", exported |-> << >>, idx |-> 0,
             setId |-> 0, uploaded |-> {}, referenced |-> {}, inSet |-> {},
             assoc |-> FALSE, dflt |-> FALSE, failed |-> FALSE, ret |-> 0]

InitUploadIdle ==
  /\ slots = [i \in Slots |-> NoSlot]
  /\ meta = NoMeta
  /\ up = NoUpload

\* The ascending sequence of the elements of a set of slot indices (the
\* materials are walked in a fixed order).
RECURSIVE InOrder(_)
InOrder(S) ==
  IF S = {} THEN << >>
  ELSE LET m == CHOOSE x \in S : \A y \in S : x <= y
       IN <<m>> \o InOrder(S \ {m})

Present == {i \in Slots : slots[i].present}

\* classify_textures_for_export, per slot of analysis["textures"].
ClassOf(slot) ==
  IF slot.file_id # 0
  THEN IF slot.original_hash # "" /\ slot.current_hash # ""
          /\ slot.original_hash = slot.current_hash
       THEN "unchanged" ELSE "modified"
  ELSE "new"

Classified(c) == {i \in Present : ClassOf(slots[i]) = c}

\* classification["any_changed"]; _handle_textures passes no original
\* texture types, so `removed` stays empty.
AnyChanged == Classified("modified") \cup Classified("new") # {}

\* textures_to_upload = classification['modified'] + classification['new']
TexturesToUpload == Classified("modified") \cup Classified("new")

\* export_textures(model_objects, temp_dir) walks every image texture of the
\* objects' materials (extract_textures_from_materials); the classification
\* is not an argument.
ExportCandidates == Present

\* The decision of _handle_textures after analysis and classification.
HandleTextures ==
  /\ up.pc = "handle"
  /\ up' = IF Present = {} THEN [up EXCEPT !.pc = "done"]
           ELSE IF ~AnyChanged /\ meta.texture_set_id # 0
           THEN [up EXCEPT !.pc = "assoc", !.path = "link",
                           !.setId = meta.texture_set_id]
           ELSE IF AnyChanged /\ Classified("unchanged") # {}
           THEN [up EXCEPT !.pc = "export", !.path = "selective"]
           ELSE [up EXCEPT !.pc = "export", !.path = "full"]
  /\ UNCHANGED <<slots, meta, taskVars, fgVars, trkVars, texVars, imgVars>>

\* exported_textures = export_textures(...): a texture whose export raises
\* is skipped.  _create_texture_set returns None when nothing was exported;
\* _create_texture_set_selective exports only `if textures_to_upload`.
Export ==
  /\ up.pc = "export"
  /\ \E S \in SUBSET ExportCandidates :
       up' = IF up.path = "selective" /\ TexturesToUpload = {}
             THEN [up EXCEPT !.pc = "empty"]
             ELSE IF S = {}
             THEN [up EXCEPT !.pc = IF up.path = "full" THEN "done" ELSE "empty"]
             ELSE [up EXCEPT !.pc = "create", !.exported = InOrder(S)]
  /\ UNCHANGED <<slots, meta, taskVars, fgVars, trkVars, texVars, imgVars>>

\* client.create_texture_set_with_file(first_tex...): uploads the first
\* exported file; texture_set_id = ts_result.get("textureSetId", 0).  An
\* exception ends the function with None.
CreateWithFile ==
  /\ up.pc = "create"
  /\ \/ up' = [up EXCEPT !.pc = "done", !.failed = TRUE]
     \/ up' = [up EXCEPT !.pc = "add", !.idx = 2, !.setId = NewSetId,
                         !.uploaded = @ \cup {up.exported[1]},
                         !.inSet = @ \cup {up.exported[1]}]
     \/ up' = [up EXCEPT !.pc = "add", !.idx = 2, !.setId = 0, !.failed = TRUE,
                         !.uploaded = @ \cup {up.exported[1]}]
  /\ UNCHANGED <<slots, meta, taskVars, fgVars, trkVars, texVars, imgVars>>

\* for tex in exported_textures[1:]: add_file_to_version, and with a file
\* id add_texture_to_set; an exception of either call is logged and the
\* loop goes on.  The server refuses to add to a set it did not create.
AddUploaded ==
  /\ up.pc = "add"
  /\ up.idx <= Len(up.exported)
  /\ LET tex == up.exported[up.idx] IN
     \/ up' = [up EXCEPT !.idx = @ + 1, !.failed = TRUE]
     \/ up' = [up EXCEPT !.idx = @ + 1, !.failed = TRUE,
                         !.uploaded = @ \cup {tex}]
     \/ /\ up.setId # 0
        /\ up' = [up EXCEPT !.idx = @ + 1, !.uploaded = @ \cup {tex},
                            !.inSet = @ \cup {tex}]
  /\ UNCHANGED <<slots, meta, taskVars, fgVars, trkVars, texVars, imgVars>>

\* The loop over the uploaded textures is over.
AddDone ==
  /\ up.pc = "add"
  /\ up.idx > Len(up.exported)
  /\ up' = [up EXCEPT !.pc = IF up.path = "full" THEN "assoc" ELSE "empty"]
  /\ UNCHANGED <<slots, meta, taskVars, fgVars, trkVars, texVars, imgVars>>

\* if not texture_set_id and textures_to_reference: POST /texture-sets
\* (an empty set); texture_set_id = ts_result.get("id", 0).
CreateEmpty ==
  /\ up.pc = "empty"
  /\ IF up.setId = 0 /\ Classified("unchanged") # {}
     THEN \/ up' = [up EXCEPT !.pc = "done", !.failed = TRUE]
          \/ up' = [up EXCEPT !.pc = "ref", !.idx = 1, !.setId = NewSetId]
          \/ up' = [up EXCEPT !.pc = "ref", !.idx = 1, !.failed = TRUE]
     ELSE up' = [up EXCEPT !.pc = "ref", !.idx = 1]
  /\ UNCHANGED <<slots, meta, taskVars, fgVars, trkVars, texVars, imgVars>>

\* if texture_set_id and textures_to_reference: for every unchanged texture
\* add_texture_to_set(texture_set_id, file_id, ...); an exception is logged
\* and the loop goes on.
Reference ==
  /\ up.pc = "ref"
  /\ up.setId # 0
  /\ up.idx <= Len(InOrder(Classified("unchanged")))
  /\ LET tex == InOrder(Classified("unchanged"))[up.idx] IN
     \/ up' = [up EXCEPT !.idx = @ + 1, !.failed = TRUE]
     \/ up' = [up EXCEPT !.idx = @ + 1, !.referenced = @ \cup {tex},
                         !.inSet = @ \cup {tex}]
  /\ UNCHANGED <<slots, meta, taskVars, fgVars, trkVars, texVars, imgVars>>

\* After the references: `if texture_set_id:` go on to associate,
\* otherwise return None.
ReferenceDone ==
  /\ up.pc = "ref"
  /\ up.setId = 0 \/ up.idx > Len(InOrder(Classified("unchanged")))
  /\ up' = [up EXCEPT !.pc = IF up.setId # 0 THEN "assoc" ELSE "done"]
  /\ UNCHANGED <<slots, meta, taskVars, fgVars, trkVars, texVars, imgVars>>

\* client.associate_texture_set_with_version(texture_set_id, version_id);
\* an exception ends the function with None.  The server knows no set 0.
Associate ==
  /\ up.pc = "assoc"
  /\ \/ up' = [up EXCEPT !.pc = "done", !.failed = TRUE]
     \/ /\ up.setId # 0
        /\ up' = [up EXCEPT !.pc = "default", !.assoc = TRUE]
  /\ UNCHANGED <<slots, meta, taskVars, fgVars, trkVars, texVars, imgVars>>

\* client.set_default_texture_set(model_id, texture_set_id, version_id);
\* _link_texture_set returns after it.
SetDefault ==
  /\ up.pc = "default"
  /\ \/ up' = [up EXCEPT !.pc = "done", !.failed = TRUE]
     \/ up' = [up EXCEPT !.dflt = TRUE,
                         !.pc = IF up.path = "link" THEN "done" ELSE "meta",
                         !.ret = IF up.path = "link" THEN up.setId ELSE 0]
  /\ UNCHANGED <<slots, meta, taskVars, fgVars, trkVars, texVars, imgVars>>

\* for obj in model_objects: obj[METADATA_TEXTURE_SET_ID] = texture_set_id;
\* obj[METADATA_TEXTURE_HASH] = new_hash; return texture_set_id.
WriteMetadata ==
  /\ up.pc = "meta"
  /\ meta' = [texture_set_id |-> up.setId, texture_hash |-> "new"]
  /\ up' = [up EXCEPT !.pc = "done", !.ret = up.setId]
  /\ UNCHANGED <<slots, taskVars, fgVars, trkVars, texVars, imgVars>>

\* --------------------------------- classify_textures_for_export
\* Number of regular (one role each) textures an analysis can list.
MaxRegular == 1

\* Number of calls of classify_textures_for_export that are told apart.
MaxRuns == 2

\* The roles of the regular textures, in the order the materials list them.
RegularRoles == <<"Albedo", "Normal", "Emissive">>

\* Roles a texture set on the server can have.
OriginalRoles == {"Albedo", "Normal", "Roughness"}

NoImage == [present |-> FALSE, modelibr_original_hash |-> "", data |-> 0]

\* An image: the hash stored on it at import/upload, and what there is to
\* hash now (0: neither a packed file nor an existing file on disk).
Images ==
  [present : {TRUE}, modelibr_original_hash : {"", "H1"}, data : {0, 1, 2}]

\* hashlib.md5(...).hexdigest() of the two possible contents.
MD5(data) == IF data = 1 THEN "H1" ELSE "H2"

\* A computation that cannot tell the contents apart.
HashIgnoresContent(image) ==
  IF ~image.present THEN "" ELSE IF image.data # 0 THEN "H1" ELSE ""

\* calculate_texture_hash(image): "" for no image and for an image that
\* has no data to hash (or whose hashing raised).
CalculateTextureHash(image) ==
  IF ~image.present THEN ""
  ELSE IF image.data # 0 THEN MD5(image.data)
  ELSE ""

\* The channel maps of a packed texture: output channel -> role.
ORM == {<<"R", "AmbientOcclusion">>, <<"G", "Roughness">>, <<"B", "Metallic">>}
RM == {<<"G", "Roughness">>, <<"B", "Metallic">>}

\* Entries of analysis["textures"] and of analysis["packed"].
RegularTex(i) ==
  [image_name : {RegularRoles[i]}, texture_type : {RegularRoles[i]},
   channels : {{}}, file_id : {0, 123}, image : Images \cup {NoImage}]

PackedTex ==
  [image_name : {"orm"}, texture_type : {""}, channels : {ORM, RM},
   file_id : {0, 123}, image : Images \cup {NoImage}]

\* The empty classification result classify_textures_for_export starts from.
EmptyClassification ==
  [unchanged |-> << >>, modified |-> << >>, new |-> << >>, removed |-> {},
   any_from_modelibr |-> FALSE, any_changed |-> FALSE,
   current_types |-> {}, runs |-> 0]

\* An index of the material list that holds no image texture.
NoTex == [image_name |-> "", texture_type |-> "", channels |-> {},
          file_id |-> 0, image |-> NoImage]

EmptyAnalysis == [textures |-> << >>, packed |-> << >>]

\* ------------------------------------- analyze_material_textures
\* Number of input sockets of the Principled BSDF that are looked at.
NumSockets == 3

\* Input sockets of the Principled BSDF; the last one has no texture type.
SocketNames == <<"Roughness", "Metallic", "Base Color", "Sheen Tint">>
Sockets == 1..NumSockets

\* What an input socket is linked from (an input takes one link): nothing,
\* the colour output of the image node, or a channel output (R, G, B after
\* channel_map) of the Separate RGB / Color / XYZ node the image feeds.
Sources == {"none", "direct", "R", "G", "B"}

\* NODE_INPUT_TO_TEXTURE_TYPE.get(socket_name): "" for no entry.
NodeInputToTextureType(name) ==
  IF name = "Base Color" THEN "Albedo"
  ELSE IF name \in {"Roughness", "Metallic"} THEN name
  ELSE ""

NotAnalyzed == [done |-> FALSE, packed |-> FALSE, textures |-> FALSE,
                channels |-> {}, texture_type |-> ""]

\* output.links of the image node's Color output holds the links in the
\* order they were made: the direct links to the BSDF before the link to
\* the separator node, or after it.
LinkOrders == {"direct_first", "separator_first"}

InitLinkIdle == linkOrder = "direct_first"

\* ------------------------------------------- pixel data of the images
\* Images are one pixel wide and up to MaxHeight pixels high; `pixels`
\* holds the RGBA pixels bottom row first, as image.pixels does, with
\* channel values 0 (0.0) and 1 (1.0).
MaxHeight == 2
Heights == 1..MaxHeight
Levels == {0, 1}

\* A grayscale pixel, and a coloured pixel whose G and B differ from R.
Gray(v) == <<v, v, v, 1>>
Coloured(v) == <<v, 1 - v, 0, 1>>

\* tex.get("image") is None
NoSource == [present |-> FALSE, readable |-> FALSE, height |-> 0,
             pixels |-> << >>]

\* An image whose pixel buffer cannot be read: its size is known,
\* reading image.pixels raises.
UnreadableImage(h) == [present |-> TRUE, readable |-> FALSE, height |-> h,
                       pixels |-> << >>]

\* The readable images of height h: grayscale ones and coloured ones.
ReadableImages(h) ==
  {[present |-> TRUE, readable |-> TRUE, height |-> h,
    pixels |-> [k \in 1..h |-> Gray(f[k])]] : f \in [1..h -> Levels]}
  \cup
  {[present |-> TRUE, readable |-> TRUE, height |-> h,
    pixels |-> [k \in 1..h |-> Coloured(f[k])]] : f \in [1..h -> Levels]}

SourceImages ==
  {NoSource} \cup UNION {ReadableImages(h) \cup {UnreadableImage(h)} : h \in Heights}

\* What a function returned: nothing yet ("none"), an image, None, or
\* an exception that left the function ("raised").
NoImageYet == [status |-> "none", height |-> 0, pixels |-> << >>, channel |-> 0]
ReturnedNone == [NoImageYet EXCEPT !.status = "None"]
RaisedOut == [NoImageYet EXCEPT !.status = "raised"]

\* A file on disk: rows top first, as the web stores them.
NoFile == [present |-> FALSE, height |-> 0, pixels |-> << >>]

\* The packable textures in the list's order, one per ORM role.
PackRoles == <<"AmbientOcclusion", "Roughness", "Metallic">>

NoOrm == [sources |-> [i \in 1..Len(PackRoles) |-> NoSource],
          packed |-> NoImageYet, file |-> NoFile, loaded |-> NoImageYet,
          extracted |-> NoImageYet]

InitOrmIdle == orm = NoOrm

\* No material with several images is under analysis.
NoMaterial == [nodes |-> << >>, done |-> FALSE, textures |-> << >>,
               packed |-> << >>, packable |-> << >>]

InitMatIdle == mat = NoMaterial

\* The objects have no original texture set.
InitServerIdle == serverRoles = {}

InitImgIdle ==
  /\ InitLinkIdle
  /\ InitMatIdle
  /\ InitOrmIdle
  /\ InitServerIdle

InitTexIdle ==
  /\ analysis = EmptyAnalysis
  /\ originalTypes = {}
  /\ classification = EmptyClassification
  /\ graph = [s \in Sockets |-> "none"]
  /\ analyzed = NotAnalyzed

\* image.get("modelibr_original_hash", "") if image else ""
OriginalHash(tex) ==
  IF tex.image.present THEN tex.image.modelibr_original_hash ELSE ""

\* A comparison that takes two absent hashes for equal hashes.
HashesMatchEvenIfAbsent(original_hash, current_hash) ==
  original_hash = current_hash

\* original_hash and current_hash and original_hash == current_hash
HashesMatch(original_hash, current_hash) ==
  original_hash # "" /\ current_hash # "" /\ original_hash = current_hash

\* A body that files a texture without file_id as new without raising
\* any_changed.
ClassifyOneQuietNew(res, tex) ==
  IF tex.file_id # 0
  THEN IF HashesMatch(OriginalHash(tex), CalculateTextureHash(tex.image))
       THEN [res EXCEPT !.any_from_modelibr = TRUE,
                        !.unchanged = Append(@, tex)]
       ELSE [res EXCEPT !.any_from_modelibr = TRUE,
                        !.modified = Append(@, tex),
                        !.any_changed = TRUE]
  ELSE [res EXCEPT !.new = Append(@, tex)]

\* The body of either loop for one entry, after current_types was updated.
ClassifyOne(res, tex) ==
  IF tex.file_id # 0
  THEN IF HashesMatch(OriginalHash(tex), CalculateTextureHash(tex.image))
       THEN [res EXCEPT !.any_from_modelibr = TRUE,
                        !.unchanged = Append(@, tex)]
       ELSE [res EXCEPT !.any_from_modelibr = TRUE,
                        !.modified = Append(@, tex),
                        !.any_changed = TRUE]
  ELSE [res EXCEPT !.new = Append(@, tex), !.any_changed = TRUE]

\* for tex in analysis.get("textures", []): ...
RECURSIVE RegularLoop(_, _, _)
RegularLoop(res, texs, i) ==
  IF i > Len(texs) THEN res
  ELSE LET tex == texs[i]
           r1 == IF tex.texture_type # ""
                 THEN [res EXCEPT !.current_types = @ \cup {tex.texture_type}]
                 ELSE res
       IN RegularLoop(ClassifyOne(r1, tex), texs, i + 1)

\* for tex in analysis.get("packed", []): ...
RECURSIVE PackedLoop(_, _, _)
PackedLoop(res, texs, i) ==
  IF i > Len(texs) THEN res
  ELSE LET tex == texs[i]
           r1 == [res EXCEPT !.current_types =
                     @ \cup {c[2] : c \in tex.channels}]
       IN PackedLoop(ClassifyOne(r1, tex), texs, i + 1)

\* A removal that does not raise any_changed.
RemovedSilently(res, original_texture_types) ==
  IF original_texture_types # {}
  THEN [res EXCEPT !.removed = original_texture_types \ res.current_types]
  ELSE res

\* if original_texture_types: removed = original - current; any_changed
Removed(res, original_texture_types) ==
  IF original_texture_types # {}
  THEN LET removed == original_texture_types \ res.current_types
       IN [res EXCEPT !.removed = removed,
                      !.any_changed = @ \/ removed # {}]
  ELSE res

\* A classification that leaves the packed entries out.
ClassifyRegularOnly(an, original_texture_types) ==
  Removed(RegularLoop(EmptyClassification, an.textures, 1),
          original_texture_types)

\* classify_textures_for_export: the loop over analysis["textures"], the
\* loop over analysis["packed"], then the removed types.
ClassifyTexturesForExport(an, original_texture_types) ==
  Removed(PackedLoop(RegularLoop(EmptyClassification, an.textures, 1),
                     an.packed, 1),
          original_texture_types)

\* The sequence of the entries present among f[1..n], in index order.
RECURSIVE Compact(_, _)
Compact(f, n) ==
  IF n = 0 THEN << >>
  ELSE IF f[n] = NoTex THEN Compact(f, n - 1)
  ELSE Append(Compact(f, n - 1), f[n])

\* A classification that stores the hash it computed on every image.
ClassifyStoresHash ==
  /\ classification' =
       [ClassifyTexturesForExport(analysis, originalTypes)
          EXCEPT !.runs = IF classification.runs < MaxRuns
                          THEN classification.runs + 1 ELSE MaxRuns]
  /\ analysis' =
       [textures |->
          [i \in 1..Len(analysis.textures) |->
             [analysis.textures[i] EXCEPT !.image.modelibr_original_hash =
                CalculateTextureHash(analysis.textures[i].image)]],
        packed |->
          [i \in 1..Len(analysis.packed) |->
             [analysis.packed[i] EXCEPT !.image.modelibr_original_hash =
                CalculateTextureHash(analysis.packed[i].image)]]]
  /\ UNCHANGED <<originalTypes, graph, analyzed>>
  /\ UNCHANGED <<taskVars, fgVars, trkVars, upVars, imgVars>>

\* One call classify_textures_for_export(analysis, original_texture_types);
\* the analysis and the images are only read.
Classify ==
  /\ classification' =
       [ClassifyTexturesForExport(analysis, originalTypes)
          EXCEPT !.runs = IF classification.runs < MaxRuns
                          THEN classification.runs + 1 ELSE MaxRuns]
  /\ UNCHANGED <<analysis, originalTypes, graph, analyzed>>
  /\ UNCHANGED <<taskVars, fgVars, trkVars, upVars, imgVars>>

\* The user paints on (or replaces the file of) the image of a regular
\* texture between two calls: its content changes, its custom properties
\* stay.
EditRegular(i) ==
  /\ i \in 1..Len(analysis.textures)
  /\ analysis.textures[i].image.data # 0
  /\ analysis' = [analysis EXCEPT !.textures[i].image.data = 3 - @]
  /\ UNCHANGED <<originalTypes, classification, graph, analyzed>>
  /\ UNCHANGED <<taskVars, fgVars, trkVars, upVars, imgVars>>

EditPacked(i) ==
  /\ i \in 1..Len(analysis.packed)
  /\ analysis.packed[i].image.data # 0
  /\ analysis' = [analysis EXCEPT !.packed[i].image.data = 3 - @]
  /\ UNCHANGED <<originalTypes, classification, graph, analyzed>>
  /\ UNCHANGED <<taskVars, fgVars, trkVars, upVars, imgVars>>

\* ------------------- analyze_material_textures, for one image node
\* The sockets among 1..n linked from source src, in link order.
RECURSIVE LinkedFrom(_, _, _)
LinkedFrom(g, src, n) ==
  IF n = 0 THEN << >>
  ELSE IF g[n] = src THEN Append(LinkedFrom(g, src, n - 1), n)
  ELSE LinkedFrom(g, src, n - 1)

\* Case 1: the connections of the image's direct links to the BSDF; a
\* socket without an entry counts as Albedo.
RECURSIVE DirectConnections(_, _)
DirectConnections(socks, i) ==
  IF i > Len(socks) THEN << >>
  ELSE LET t == NodeInputToTextureType(SocketNames[socks[i]]) IN
       << [channel |-> "RGB",
           texture_type |-> IF t = "" THEN "Albedo" ELSE t,
           via_separate |-> FALSE] >>
       \o DirectConnections(socks, i + 1)

\* Case 4, for one separator output: a connection per link into a BSDF
\* socket that has a texture type.
RECURSIVE ChannelConnections(_, _, _)
ChannelConnections(ch, socks, i) ==
  IF i > Len(socks) THEN << >>
  ELSE LET t == NodeInputToTextureType(SocketNames[socks[i]]) IN
       (IF t # ""
        THEN << [channel |-> ch, texture_type |-> t, via_separate |-> TRUE] >>
        ELSE << >>)
       \o ChannelConnections(ch, socks, i + 1)

\* The connections found through the separator, its outputs in the
\* node's order.
SeparatorConnections(g) ==
  ChannelConnections("R", LinkedFrom(g, "R", NumSockets), 1)
  \o ChannelConnections("G", LinkedFrom(g, "G", NumSockets), 1)
  \o ChannelConnections("B", LinkedFrom(g, "B", NumSockets), 1)

\* image_connections: one pass over output.links, appending as the
\* links come.
ImageConnections(g, order) ==
  LET direct == DirectConnections(LinkedFrom(g, "direct", NumSockets), 1)
  IN IF order = "direct_first" THEN direct \o SeparatorConnections(g)
     ELSE SeparatorConnections(g) \o direct

\* {c["channel"]: c["texture_type"] for c in via_separate}: the last
\* connection of a channel wins.
ChannelMap(via) ==
  {<<via[i].channel, via[i].texture_type>> :
     i \in {j \in 1..Len(via) :
              \A k \in (j + 1)..Len(via) : via[k].channel # via[j].channel}}

\* A fallback that takes the last connection instead of the first.
AnalyzeImageLastWins(g, order) ==
  LET conns == ImageConnections(g, order)
      via_separate == SelectSeq(conns, LAMBDA c : c.via_separate)
      direct == SelectSeq(conns, LAMBDA c : ~c.via_separate)
  IN IF Len(via_separate) >= 2
     THEN [done |-> TRUE, packed |-> TRUE, textures |-> FALSE,
           channels |-> ChannelMap(via_separate), texture_type |-> ""]
     ELSE IF Len(direct) = 1
     THEN [done |-> TRUE, packed |-> FALSE, textures |-> TRUE,
           channels |-> {}, texture_type |-> direct[1].texture_type]
     ELSE IF conns # << >>
     THEN [done |-> TRUE, packed |-> FALSE, textures |-> TRUE,
           channels |-> {}, texture_type |-> conns[Len(conns)].texture_type]
     ELSE [done |-> TRUE, packed |-> FALSE, textures |-> FALSE,
           channels |-> {}, texture_type |-> ""]

\* The packed / direct decision for the image.
AnalyzeImage(g, order) ==
  LET conns == ImageConnections(g, order)
      via_separate == SelectSeq(conns, LAMBDA c : c.via_separate)
      direct == SelectSeq(conns, LAMBDA c : ~c.via_separate)
  IN IF Len(via_separate) >= 2
     THEN [done |-> TRUE, packed |-> TRUE, textures |-> FALSE,
           channels |-> ChannelMap(via_separate), texture_type |-> ""]
     ELSE IF Len(direct) = 1
     THEN [done |-> TRUE, packed |-> FALSE, textures |-> TRUE,
           channels |-> {}, texture_type |-> direct[1].texture_type]
     ELSE IF conns # << >>
     THEN [done |-> TRUE, packed |-> FALSE, textures |-> TRUE,
           channels |-> {}, texture_type |-> conns[1].texture_type]
     ELSE [done |-> TRUE, packed |-> FALSE, textures |-> FALSE,
           channels |-> {}, texture_type |-> ""]

\* analyze_material_textures([obj]) on a material with this node tree.
Analyze ==
  /\ ~analyzed.done
  /\ analyzed' = AnalyzeImage(graph, linkOrder)
  /\ UNCHANGED <<analysis, originalTypes, classification, graph>>
  /\ UNCHANGED <<taskVars, fgVars, trkVars, upVars, imgVars>>

\* ------------------- analyze_material_textures: the packable candidates
\* The image nodes of one material, each with the pixel size of its image
\* and the way it reaches the BSDF: one direct link (the role of the
\* linked input), two or more separator channels ("packed"), or no
\* recognised connection ("").
NumImages == 3
ImageIds == 1..NumImages
ImageSizes == {64, 128}
PACKABLE_TEXTURE_TYPES == {"AmbientOcclusion", "Roughness", "Metallic"}
DirectRoles == PACKABLE_TEXTURE_TYPES \cup {"Albedo"}
NodeKinds == [link : DirectRoles \cup {"packed", ""}, size : ImageSizes]

\* packable_candidates[texture_type] = texture_info on a dict kept as the
\* sequence of its items: a known key keeps its place and takes the new
\* value, a new key goes to the end.
DictSet(dict, key, value) ==
  IF \E k \in 1..Len(dict) : dict[k][1] = key
  THEN [k \in 1..Len(dict) |->
          IF dict[k][1] = key THEN <<key, value>> ELSE dict[k]]
  ELSE Append(dict, <<key, value>>)

\* The loop over the image nodes, from node i on, res holding the three
\* lists built so far (packable holds packable_candidates).
RECURSIVE AnalyzeNodes(_, _, _)
AnalyzeNodes(nodes, i, res) ==
  IF i > Len(nodes) THEN res
  ELSE LET link == nodes[i].link
       IN AnalyzeNodes(nodes, i + 1,
            IF link = "packed"
            THEN [res EXCEPT !.packed = Append(@, i)]
            ELSE IF link # ""
            THEN [res EXCEPT
                    !.textures = Append(@, i),
                    !.packable = IF link \in PACKABLE_TEXTURE_TYPES
                                 THEN DictSet(@, link, i) ELSE @]
            ELSE res)

\* analyze_material_textures: `packable` is the candidates' values when
\* there are two or more of them.
AnalyzeMaterial(nodes) ==
  LET res == AnalyzeNodes(nodes, 1, [textures |-> << >>, packed |-> << >>,
                                     packable |-> << >>])
  IN [nodes |-> nodes, done |-> TRUE, textures |-> res.textures,
      packed |-> res.packed,
      packable |-> IF Len(res.packable) >= 2
                   THEN [k \in 1..Len(res.packable) |-> res.packable[k][2]]
                   ELSE << >>]

\* analyze_material_textures([obj]) on the material with several images.
AnalyzeAll ==
  /\ mat.nodes # << >>
  /\ ~mat.done
  /\ mat' = AnalyzeMaterial(mat.nodes)
  /\ UNCHANGED <<linkOrder, orm, serverRoles>>
  /\ UNCHANGED <<taskVars, fgVars, trkVars, upVars, texVars>>

\* ---------------------- pack_textures_to_orm, extract_channel_from_image
\* ORM_CHANNEL_MAPPING: the numpy index of the channel of a role.
ORM_CHANNEL_MAPPING(role) ==
  CASE role = "AmbientOcclusion" -> 0
    [] role = "Roughness" -> 1
    [] role = "Metallic" -> 2

\* np.flipud on an array of rows.
FlipUD(rows) == [k \in 1..Len(rows) |-> rows[Len(rows) + 1 - k]]

\* pixels[:, :, idx]: channel idx (numpy index) of every row.
ChannelOf(rows, idx) == [k \in 1..Len(rows) |-> rows[k][idx + 1]]

\* output[:, :, idx] = data
SetChannel(rows, idx, data) ==
  [k \in 1..Len(rows) |-> [rows[k] EXCEPT ![idx + 1] = data[k]]]

\* A packing that flips each source once only.
PackChannelFlipsOnce(output, idx, image) ==
  SetChannel(output, idx, FlipUD(ChannelOf(image.pixels, 0)))

\* One source packed: its first channel, flipped and flipped back, goes
\* to channel idx of the output.
PackChannel(output, idx, image) ==
  LET channel_data == FlipUD(ChannelOf(image.pixels, 0))
  IN SetChannel(output, idx, FlipUD(channel_data))

\* The loop over textures_by_type, from entry i on: a source of another
\* size is skipped, reading the pixels of an unreadable one raises.
RECURSIVE PackLoop(_, _, _, _)
PackLoop(srcs, by_type, i, out) ==
  IF i > Len(by_type) THEN out
  ELSE LET image == srcs[by_type[i]]
           idx == ORM_CHANNEL_MAPPING(PackRoles[by_type[i]])
       IN IF image.height # out.height
          THEN PackLoop(srcs, by_type, i + 1, out)
          ELSE IF ~image.readable THEN RaisedOut
          ELSE PackLoop(srcs, by_type, i + 1,
                 [out EXCEPT !.pixels = PackChannel(@, idx, image)])

\* pack_textures_to_orm(packable_textures)
PackTexturesToOrm(srcs) ==
  LET by_type == SelectSeq([i \in 1..Len(PackRoles) |-> i],
                           LAMBDA i : srcs[i].present)
  IN IF by_type = << >> THEN ReturnedNone
     ELSE LET height == srcs[by_type[1]].height
          IN PackLoop(srcs, by_type, 1,
               [status |-> "image", height |-> height, channel |-> 0,
                pixels |-> [k \in 1..height |-> <<1, 1, 1, 1>>]])

\* An extraction that uses the API channel index as the numpy index.
ExtractOffByOne(image, channel_index) ==
  IF image.status # "image" THEN ReturnedNone
  ELSE IF channel_index < 1 \/ channel_index > 4 THEN ReturnedNone
  ELSE IF image.height = 0 THEN ReturnedNone
  ELSE IF channel_index > 3 THEN ReturnedNone
  ELSE LET channel_data == ChannelOf(image.pixels, channel_index)
       IN [status |-> "image", height |-> image.height,
           channel |-> channel_index,
           pixels |-> [k \in 1..Len(channel_data) |->
                         <<channel_data[k], channel_data[k],
                           channel_data[k], 1>>]]

\* extract_channel_from_image(source_image, channel_index, name)
ExtractChannelFromImage(image, channel_index) ==
  IF image.status # "image" THEN ReturnedNone
  ELSE IF channel_index < 1 \/ channel_index > 4 THEN ReturnedNone
  ELSE IF image.height = 0 THEN ReturnedNone
  ELSE LET numpy_channel_idx == channel_index - 1
           channel_data == ChannelOf(image.pixels, numpy_channel_idx)
       IN [status |-> "image", height |-> image.height,
           channel |-> channel_index,
           pixels |-> [k \in 1..Len(channel_data) |->
                         <<channel_data[k], channel_data[k],
                           channel_data[k], 1>>]]

\* The channel_index arguments tried: SOURCE_CHANNEL_RGB .. A, and 5.
ChannelInputs == 0..5

\* Loading a downloaded file without flipping it.
LoadTextureNoFlip(file) ==
  [status |-> "image", height |-> file.height, channel |-> 0,
   pixels |-> file.pixels]

\* apply_textures_to_materials: flip_image_vertical(filepath), then
\* bpy.data.images.load(filepath).
LoadTexture(file) ==
  [status |-> "image", height |-> file.height, channel |-> 0,
   pixels |-> FlipUD(file.pixels)]

\* The PACK_ORM branch of _handle_textures calls pack_textures_to_orm.
Pack ==
  /\ orm.file = NoFile
  /\ orm.packed.status = "none"
  /\ orm' = [orm EXCEPT !.packed = PackTexturesToOrm(orm.sources)]
  /\ UNCHANGED <<linkOrder, mat, serverRoles>>
  /\ UNCHANGED <<taskVars, fgVars, trkVars, upVars, texVars>>

\* extract_channel_from_image on the packed image.
Extract(c) ==
  /\ orm.packed.status = "image"
  /\ orm.extracted.status = "none"
  /\ orm' = [orm EXCEPT !.extracted = ExtractChannelFromImage(orm.packed, c)]
  /\ UNCHANGED <<linkOrder, mat, serverRoles>>
  /\ UNCHANGED <<taskVars, fgVars, trkVars, upVars, texVars>>

\* apply_textures_to_materials for one downloaded file with source
\* channel c: the file is flipped and loaded; for a channel other than
\* RGB the channel is extracted, the loaded image standing in when that
\* fails.
ApplyTexture(c) ==
  /\ orm.file.present
  /\ orm.loaded.status = "none"
  /\ c \in 0..4
  /\ LET image == LoadTexture(orm.file)
         extracted == ExtractChannelFromImage(image, c)
     IN orm' = [orm EXCEPT
                  !.loaded = image,
                  !.extracted = IF c # 0 /\ extracted.status = "image"
                                THEN extracted
                                ELSE [image EXCEPT !.channel = c]]
  /\ UNCHANGED <<linkOrder, mat, serverRoles>>
  /\ UNCHANGED <<taskVars, fgVars, trkVars, upVars, texVars>>

\* ------------------------------------------------------ task registry
\* register_task(task_id, task): _active_tasks[task_id] = task
RegisterTask(reg, id, t) == [reg EXCEPT ![id] = t]

\* unregister_task(task_id): _active_tasks.pop(task_id, None)
UnregisterTask(reg, id) == [reg EXCEPT ![id] = 0]

\* get_task(task_id)
GetTask(id) == registry[id]

RegisteredTasks == {registry[id] : id \in TaskIds} \ {0}

\* has_active_task(): any(task.tracker.is_running for task in registry)
HasActiveTask == \E t \in RegisteredTasks : IsRunning(state[t])

\* cancel_all_tasks(): task.cancel() for every task in the registry.
CancelAllEffect ==
  /\ cancel' = [t \in Tasks |-> cancel[t] \/ t \in RegisteredTasks]
  /\ UNCHANGED <<state, thread, worker>>

\* The registry functions called directly.
Register(id, t) ==
  /\ registry[id] # t
  /\ registry' = RegisterTask(registry, id, t)
  /\ UNCHANGED <<taskVars, op, scene, trkVars, upVars, texVars, imgVars>>

Unregister(id) ==
  /\ registry[id] # 0
  /\ registry' = UnregisterTask(registry, id)
  /\ UNCHANGED <<taskVars, op, scene, trkVars, upVars, texVars, imgVars>>

CancelAllTasks ==
  /\ \E t \in RegisteredTasks : ~cancel[t]
  /\ CancelAllEffect
  /\ UNCHANGED <<cfgVars, escaped, startCalls, otherVars>>

\* ------------------------------------ specification: one task, driven
\* directly through the BackgroundTask API
TheTask == 1

InitTasks(active) ==
  /\ state = [t \in Tasks |-> ProgressState]
  /\ kind \in [Tasks -> Kinds]
  /\ \A t \in Tasks \ active : kind[t] = "simple"
  /\ ntex \in [Tasks -> 0..MaxTextures]
  /\ blend \in [Tasks -> BOOLEAN]
  /\ \A t \in Tasks : /\ (kind[t] # "import" \/ t \notin active) => ntex[t] = 0
                      /\ (kind[t] # "upload" \/ t \notin active) => ~blend[t]
  /\ thread = [t \in Tasks |-> 0]
  /\ worker = [t \in Tasks |-> [k \in Threads |-> NoWorker]]
  /\ cancel = [t \in Tasks |-> FALSE]
  /\ escaped = [t \in Tasks |-> FALSE]
  /\ startCalls = [t \in Tasks |-> 0]

InitForeground ==
  /\ registry = [id \in TaskIds |-> 0]
  /\ op = [o \in Ops |-> NewOperator]
  /\ scene = NewScene

Init ==
  /\ InitTasks({TheTask})
  /\ InitForeground
  /\ InitTracker
  /\ InitUploadIdle
  /\ InitTexIdle
  /\ InitImgIdle

WrapperStep(t, k) ==
  \/ WrapSetRunning(t, k)
  \/ WrapCheckFinished(t, k)
  \/ WrapSetCompleted(t, k)

AddonRunStep(t, k) ==
  \/ RunExcept(t, k)
  \/ ImportBegin(t, k)
  \/ ImportDownloadModel(t, k)
  \/ ImportCheckCancel(t, k)
  \/ ImportLoopHead(t, k)
  \/ ImportDownloadTexture(t, k)
  \/ UploadBegin(t, k)
  \/ UploadCheckCancel1(t, k)
  \/ UploadCreateVersion(t, k)
  \/ UploadCheckCancel2(t, k)
  \/ UploadBlend(t, k)
  \/ UploadComplete(t, k)

TestRunStep(t, k) ==
  \/ WrapExcept(t, k)
  \/ SimpleUpdate(t, k)
  \/ SimpleComplete(t, k)
  \/ FailingRaise(t, k)
  \/ PollingIter(t, k)
  \/ PollingWork(t, k)

WorkerStep(t) ==
  \E k \in Threads : WrapperStep(t, k) \/ AddonRunStep(t, k) \/ TestRunStep(t, k)

Next ==
  \/ Start(TheTask)
  \/ Cancel(TheTask)
  \/ \E id \in TaskIds : Register(id, TheTask) \/ Unregister(id)
  \/ CancelAllTasks
  \/ WorkerStep(TheTask)

Spec == Init /\ [][Next]_vars

\* Threads are scheduled by the operating system and every blocking call
\* of a worker returns or raises: a worker that can step eventually does.
FairSpec == Spec /\ WF_vars(WorkerStep(TheTask))

\* ------------------------------------- async modal operators (foreground)
\* The task object operator o creates in invoke()/execute().
TaskOf(o) == o

\* The model_id property operator o was created with (the import operator's
\* model_id, the scene's current_model_id for the upload operator).
ModelOf(o) == ((o - 1) % NumModels) + 1

\* f"import_{self.model_id}" / f"upload_{self._model_id}"
TaskIdOf(o) == <<kind[TaskOf(o)], op[o].model_id>>

\* invoke() of MODELIBR_OT_import_model_async, execute() of
\* MODELIBR_OT_upload_version_async: create the task, register_task(id,
\* task), task.start(), add the timer and the modal handler.  When the
\* preparation fails (ApiError, no version, export failed) the operator
\* returns CANCELLED without creating a task.
Invoke(o) ==
  /\ op[o].phase = "idle"
  /\ startCalls[TaskOf(o)] < MaxStarts
  /\ \/ /\ registry' = RegisterTask(registry, <<kind[TaskOf(o)], ModelOf(o)>>,
                                    TaskOf(o))
        /\ StartBody(TaskOf(o))
        /\ op' = [op EXCEPT ![o].phase = "modal", ![o].model_id = ModelOf(o),
                            ![o].timer = TRUE, ![o].task = TaskOf(o)]
        /\ UNCHANGED <<state, cfgVars, escaped, scene, trkVars, upVars, texVars, imgVars>>
     \/ /\ op' = [op EXCEPT ![o].phase = "done", ![o].ret = "CANCELLED"]
        /\ UNCHANGED <<taskVars, registry, scene, trkVars, upVars, texVars, imgVars>>

\* _finish(context, cancelled): remove the timer, unregister_task(id),
\* self._task = None, return CANCELLED or FINISHED.
FinishOp(o, cancelled) ==
  [op[o] EXCEPT !.phase = "done", !.timer = FALSE, !.task = 0,
                !.ret = IF cancelled THEN "CANCELLED" ELSE "FINISHED"]

FinishEffect(o, cancelled) ==
  /\ op' = [op EXCEPT ![o] = FinishOp(o, cancelled)]
  /\ registry' = UnregisterTask(registry, TaskIdOf(o))

\* A dispatch in which a Cancelled snapshot also finalizes.
TickBranchCancelledCompletes(s) ==
  IF s.status \in {COMPLETED, CANCELLED} THEN "complete"
  ELSE IF s.status = FAILED THEN "failed"
  ELSE "pass"

\* The status dispatch of modal() on a TIMER event.
TickBranch(s) ==
  IF s.status = COMPLETED THEN "complete"
  ELSE IF s.status = FAILED THEN "failed"
  ELSE IF s.status = CANCELLED THEN "cancelled"
  ELSE "pass"

\* _complete_import(context, result): import the file and update the scene
\* properties (or report an unsupported format / a caught exception), then
\* _finish(context).
\* _complete_upload(context, result): with a version id, set
\* props.current_version_id; then _finish(context).
Complete(o, result) ==
  /\ \/ /\ kind[TaskOf(o)] = "import"
        /\ \/ \E v \in VersionIds :
                scene' = [current_model_id |-> op[o].model_id, current_version_id |-> v]
           \/ UNCHANGED scene
     \/ /\ kind[TaskOf(o)] = "upload"
        /\ scene' = IF result.version_id > 0
                    THEN [scene EXCEPT !.current_version_id = result.version_id]
                    ELSE scene
  /\ op' = [op EXCEPT ![o] = [FinishOp(o, FALSE) EXCEPT !.finalized = @ + 1]]
  /\ registry' = UnregisterTask(registry, TaskIdOf(o))

\* modal() on a TIMER event.  A tick that finds the task Pending or Running
\* returns PASS_THROUGH and changes nothing.
ModalTimer(o) ==
  /\ op[o].phase = "modal"
  /\ op[o].timer
  /\ IF op[o].task = 0
     THEN FinishEffect(o, TRUE) /\ UNCHANGED scene
     ELSE LET snapshot == state[op[o].task]
              branch == TickBranch(snapshot) IN
          /\ branch # "pass"
          /\ IF branch = "complete" THEN Complete(o, snapshot.result)
             ELSE IF branch = "failed" THEN FinishEffect(o, FALSE) /\ UNCHANGED scene
             ELSE FinishEffect(o, TRUE) /\ UNCHANGED scene
  /\ UNCHANGED <<taskVars, trkVars, upVars, texVars, imgVars>>

\* An ESC branch that only requests cancellation and keeps polling.
EscKeepsPolling(o) ==
  /\ op' = [op EXCEPT ![o].aborted = TRUE]
  /\ UNCHANGED registry

\* The teardown of the ESC branch: _finish(context, cancelled=True).
EscTeardown(o) ==
  /\ op' = [op EXCEPT ![o] = [FinishOp(o, TRUE) EXCEPT !.aborted = TRUE]]
  /\ registry' = UnregisterTask(registry, TaskIdOf(o))

\* modal() on an ESC event: if self._task: self._task.cancel(); then
\* _finish(context, cancelled=True).
ModalEsc(o) ==
  /\ op[o].phase = "modal"
  /\ ~op[o].aborted
  /\ IF op[o].task # 0
     THEN CancelEffect(op[o].task)
     ELSE UNCHANGED <<state, thread, worker, cancel>>
  /\ EscTeardown(o)
  /\ UNCHANGED <<cfgVars, escaped, startCalls, scene, trkVars, upVars, texVars, imgVars>>

\* ------------------------- specification: the async operators, their
\* tasks and the registry
\* Operators with an odd index are async imports, the others async
\* uploads; every import has MaxTextures textures to download and every
\* upload includes the .blend file.
InitModal ==
  /\ InitTasks(Tasks)
  /\ \A t \in Tasks : /\ kind[t] = (IF t % 2 = 1 THEN "import" ELSE "upload")
                      /\ kind[t] = "import" => ntex[t] = MaxTextures
                      /\ kind[t] = "upload" => blend[t]
  /\ InitForeground
  /\ InitTracker
  /\ InitUploadIdle
  /\ InitTexIdle
  /\ InitImgIdle

\* run() of ImportDownloadTask and of UploadTask always leaves a terminal
\* status, so the wrapper's own set_completed() is never reached here.
NextModal ==
  \/ \E o \in Ops : Invoke(o) \/ ModalTimer(o) \/ ModalEsc(o)
  \/ CancelAllTasks
  \/ \E t \in Tasks, k \in Threads :
       WrapSetRunning(t, k) \/ WrapCheckFinished(t, k) \/ AddonRunStep(t, k)

SpecModal == InitModal /\ [][NextModal]_vars

\* ------------- specification: async imports only, so that operators
\* started for the same model use the same task id
InitImports ==
  /\ InitTasks(Tasks)
  /\ \A t \in Tasks : kind[t] = "import" /\ ntex[t] = MaxTextures
  /\ InitForeground
  /\ InitTracker
  /\ InitUploadIdle
  /\ InitTexIdle
  /\ InitImgIdle

ImportRunStep(t, k) ==
  \/ RunExcept(t, k)
  \/ ImportBegin(t, k)
  \/ ImportDownloadModel(t, k)
  \/ ImportCheckCancel(t, k)
  \/ ImportLoopHead(t, k)
  \/ ImportDownloadTexture(t, k)

NextImports ==
  \/ \E o \in Ops : Invoke(o) \/ ModalTimer(o) \/ ModalEsc(o)
  \/ CancelAllTasks
  \/ \E t \in Tasks, k \in Threads :
       WrapSetRunning(t, k) \/ WrapCheckFinished(t, k) \/ ImportRunStep(t, k)

SpecImports == InitImports /\ [][NextImports]_vars

\* ------------- specification: writers and a reader on one tracker
InitTrackerSpec ==
  /\ InitTasks({})
  /\ InitForeground
  /\ InitTracker
  /\ InitUploadIdle
  /\ InitTexIdle
  /\ InitImgIdle

SpecTracker == InitTrackerSpec /\ [][NextTracker]_vars

\* --------------- specification: the texture handling of one upload
InitUpload ==
  /\ InitTasks({})
  /\ InitForeground
  /\ InitTracker
  /\ slots \in [Slots -> SlotValues]
  /\ meta \in {NoMeta, OrigMeta}
  /\ up = [NoUpload EXCEPT !.pc = "handle"]
  /\ InitTexIdle
  /\ InitLinkIdle
  /\ InitMatIdle
  /\ InitOrmIdle
  /\ serverRoles \in (IF meta.texture_set_id # 0
                       THEN SUBSET Slots \ {{}} ELSE {{}})

NextUpload ==
  \/ HandleTextures
  \/ Export
  \/ CreateWithFile
  \/ AddUploaded
  \/ AddDone
  \/ CreateEmpty
  \/ Reference
  \/ ReferenceDone
  \/ Associate
  \/ SetDefault
  \/ WriteMetadata

SpecUpload == InitUpload /\ [][NextUpload]_vars

\* --------- specification: classify_textures_for_export, called again
\* and again on an analysis whose images the user may edit in between
InitClassify ==
  /\ InitTasks({})
  /\ InitForeground
  /\ InitTracker
  /\ InitUploadIdle
  /\ \E f \in [1..MaxRegular ->
                 {NoTex} \cup UNION {RegularTex(i) : i \in 1..MaxRegular}] :
       /\ \A i \in 1..MaxRegular : f[i] \in {NoTex} \cup RegularTex(i)
       /\ \E p \in {<< >>} \cup {<<x>> : x \in PackedTex} :
            analysis = [textures |-> Compact(f, MaxRegular), packed |-> p]
  /\ originalTypes \in SUBSET OriginalRoles
  /\ classification = EmptyClassification
  /\ graph = [s \in Sockets |-> "none"]
  /\ analyzed = NotAnalyzed
  /\ InitImgIdle

NextClassify ==
  \/ Classify
  \/ \E i \in 1..MaxRegular : EditRegular(i)
  \/ EditPacked(1)

SpecClassify == InitClassify /\ [][NextClassify]_vars

\* --------- specification: analyze_material_textures on a material with
\* several image nodes
InitMaterial ==
  /\ InitTasks({})
  /\ InitForeground
  /\ InitTracker
  /\ InitUploadIdle
  /\ InitTexIdle
  /\ InitLinkIdle
  /\ \E nodes \in [ImageIds -> NodeKinds] : mat = [NoMaterial EXCEPT !.nodes = nodes]
  /\ InitOrmIdle
  /\ InitServerIdle

NextMaterial == AnalyzeAll

SpecMaterial == InitMaterial /\ [][NextMaterial]_vars

\* --------- specification: channel packing. Either the scene holds the
\* sources of a packing, or a texture file has been downloaded.
DownloadedFiles ==
  {[present |-> TRUE, height |-> h, pixels |-> [k \in 1..h |-> Coloured(f[k])]] :
     h \in Heights, f \in [1..MaxHeight -> Levels]}

InitPack ==
  /\ InitTasks({})
  /\ InitForeground
  /\ InitTracker
  /\ InitUploadIdle
  /\ InitTexIdle
  /\ InitLinkIdle
  /\ InitMatIdle
  /\ \/ \E srcs \in [1..Len(PackRoles) -> SourceImages] :
          orm = [NoOrm EXCEPT !.sources = srcs]
     \/ \E f \in DownloadedFiles : orm = [NoOrm EXCEPT !.file = f]
  /\ InitServerIdle

NextPack ==
  \/ Pack
  \/ \E c \in ChannelInputs : Extract(c)
  \/ \E c \in ChannelInputs : ApplyTexture(c)

SpecPack == InitPack /\ [][NextPack]_vars

\* --------- specification: analyze_material_textures on the node trees
\* that link one image, directly or through a separator, to the BSDF
InitAnalyze ==
  /\ InitTasks({})
  /\ InitForeground
  /\ InitTracker
  /\ InitUploadIdle
  /\ analysis = EmptyAnalysis
  /\ originalTypes = {}
  /\ classification = EmptyClassification
  /\ graph \in [Sockets -> Sources]
  /\ analyzed = NotAnalyzed
  /\ linkOrder \in LinkOrders
  /\ InitMatIdle
  /\ InitOrmIdle
  /\ InitServerIdle

NextAnalyze == Analyze

SpecAnalyze == InitAnalyze /\ [][NextAnalyze]_vars


\* ====================================================== properties
Status(t) == state[t].status

\* The latest thread of t has been started and has ended.
ThreadEnded(t) == thread[t] # 0 /\ worker[t][thread[t]].pc = "dead"

\* Subclasses whose run() polls should_cancel on every iteration.
PollingKinds == {"polling", "import", "upload"}

\* The worker is inside run().
InRun(t) ==
  /\ thread[t] # 0
  /\ worker[t][thread[t]].pc \notin
       {"unborn", "dead", "wrap_set_running", "wrap_check", "wrap_complete", "wrap_except"}

\* The worker is inside run() and will read should_cancel at least once
\* more before run() can return normally.
CheckAhead(t) ==
  /\ InRun(t)
  /\ LET w == worker[t][thread[t]] IN
       \/ kind[t] = "polling" /\ w.pc = "run_begin" /\ w.i < PollIters
       \/ kind[t] = "polling" /\ w.pc = "poll_work" /\ w.i + 1 < PollIters
       \/ kind[t] = "import" /\ w.pc \in {"run_begin", "dl_model", "dl_check"}
       \/ kind[t] = "import" /\ w.pc = "tex_loop" /\ w.i < ntex[t]
       \/ kind[t] = "import" /\ w.pc = "tex_download" /\ w.i + 1 < ntex[t]
       \/ kind[t] = "upload" /\ w.pc \in {"run_begin", "up_check1", "up_create", "up_check2"}

\* C1 (as claimed): the status never moves backward in the order
\* Pending -> Running -> {Completed, Failed, Cancelled}, and a terminal
\* status is never changed by a later update.
C1_StatusOnlyForward ==
  [][\A t \in Tasks :
       /\ StatusRank(state'[t].status) >= StatusRank(state[t].status)
       /\ IsFinished(state[t]) => state'[t].status = state[t].status]_vars

\* C2 (as claimed): once cancel() has been called while a polling worker is
\* inside run(), the task eventually has status Cancelled.
C2_CancelMidRunLeadsToCancelled ==
  \A t \in Tasks :
    (kind[t] \in PollingKinds /\ cancel[t] /\ InRun(t)) ~> (Status(t) = CANCELLED)

\* C2 (amended): once cancel() has been called while a polling worker is
\* inside run() with a should_cancel check still ahead of it, the task
\* eventually has status Cancelled, or Failed when run() fails first; and a
\* status Cancelled is only ever left by a new start() (to Running), never
\* towards Completed.
C2_CancelBeforeLastCheck ==
  /\ \A t \in Tasks :
       (kind[t] \in PollingKinds /\ cancel[t] /\ CheckAhead(t))
          ~> (Status(t) \in {CANCELLED, FAILED})
  /\ [][\A t \in Tasks :
          (Status(t) = CANCELLED /\ state'[t].status # CANCELLED)
             => /\ state'[t].status = RUNNING
                /\ worker[t][thread[t]].pc = "wrap_set_running"]_vars

\* C2 witness: a polling worker has honoured a cancel request.
C2_Witness ==
  \E t \in Tasks :
    /\ kind[t] \in PollingKinds
    /\ cancel[t]
    /\ Status(t) = CANCELLED
    /\ ThreadEnded(t)

\* C3: when run() raised, the thread ends with status Failed and error equal
\* to the exception's message, and no exception ever leaves the wrapper.
C3_ExceptionBecomesFailed ==
  \A t \in Tasks :
    /\ ~escaped[t]
    /\ (kind[t] = "failing" /\ ThreadEnded(t))
         => /\ Status(t) = FAILED
            /\ state[t].error = TestErrorText
            /\ state[t].error = worker[t][thread[t]].exc

\* C3 witness: a FailingTask whose worker has ended.
C3_Witness ==
  \E t \in Tasks : kind[t] = "failing" /\ ThreadEnded(t) /\ Status(t) = FAILED

\* Number of Thread objects start() has created for t.
ThreadsCreated(t) == Cardinality({k \in Threads : worker[t][k].pc # "unborn"})

\* C4: at most one worker of a task is alive; a start() while the worker is
\* alive changes neither the workers, the cancel flag nor the tracker; any
\* other start() creates exactly one worker.
C4_OneWorker ==
  /\ [](\A t \in Tasks : Cardinality(LiveWorkers(t)) <= 1)
  /\ [][\A t \in Tasks :
          startCalls'[t] # startCalls[t] =>
            IF ThreadAlive(t)
            THEN /\ worker'[t] = worker[t]
                 /\ thread'[t] = thread[t]
                 /\ cancel'[t] = cancel[t]
                 /\ state'[t] = state[t]
            ELSE /\ ThreadsCreated(t)' = ThreadsCreated(t) + 1
                 /\ Cardinality(LiveWorkers(t)') = 1]_vars

\* C4 witness: start() was called twice, the second time while the first
\* worker was still alive.
C4_Witness ==
  \E t \in Tasks : startCalls[t] = 2 /\ ThreadsCreated(t) = 1 /\ ThreadAlive(t)

\* C5: a step that sets the cancel flag changes no tracker and no worker;
\* a SimpleTask worker (its run() never reads should_cancel) that is alive
\* with the flag set still ends, and whenever it has ended the status is
\* Completed.
C5_CancelIsAdvisory ==
  /\ [][(\E t \in Tasks : cancel'[t] /\ ~cancel[t])
          => (state' = state /\ worker' = worker /\ thread' = thread)]_vars
  /\ [](\A t \in Tasks :
          (kind[t] = "simple" /\ ThreadEnded(t)) => Status(t) = COMPLETED)
  /\ \A t \in Tasks :
       (kind[t] = "simple" /\ cancel[t] /\ ThreadAlive(t))
          ~> (ThreadEnded(t) /\ Status(t) = COMPLETED)

\* C5 witness: a SimpleTask cancelled while alive has ended Completed.
C5_Witness ==
  \E t \in Tasks :
    kind[t] = "simple" /\ cancel[t] /\ ThreadEnded(t) /\ Status(t) = COMPLETED

\* C7: _complete_import / _complete_upload runs only in a TIMER tick that
\* finds the operator's task Completed, and at most once; a tick that finds
\* the task Completed, Failed or Cancelled removes the timer, empties the
\* registry entry and drops the task reference; a tick that finds it Failed
\* or Cancelled does not finalize.
C7_FinalizeOnlyOnCompleted ==
  [][\A o \in Ops :
       /\ op'[o].finalized # op[o].finalized
            => /\ ModalTimer(o)
               /\ op[o].task = TaskOf(o)
               /\ Status(TaskOf(o)) = COMPLETED
               /\ op[o].finalized = 0
               /\ op'[o].finalized = 1
       /\ (ModalTimer(o) /\ op[o].task # 0 /\ IsFinished(state[TaskOf(o)]))
            => /\ ~op'[o].timer
               /\ op'[o].task = 0
               /\ registry'[TaskIdOf(o)] = 0
               /\ op'[o].phase = "done"
       /\ (ModalTimer(o) /\ op[o].task # 0 /\ Status(TaskOf(o)) \in {FAILED, CANCELLED})
            => op'[o].finalized = op[o].finalized]_vars

\* C7 witness: an operator has finalized its Completed task and finished.
C7_Witness ==
  \E o \in Ops :
    /\ op[o].finalized = 1
    /\ op[o].ret = "FINISHED"
    /\ ~op[o].timer
    /\ op[o].task = 0
    /\ Status(TaskOf(o)) = COMPLETED

\* C8: the ESC step sets the task's cancel flag and, in the same step,
\* removes the timer, empties the registry entry and drops the task
\* reference, leaving the tracker alone; from then on finalization never
\* runs for that operator's task.
C8_EscTearsDown ==
  /\ [][\A o \in Ops :
          (op'[o].aborted /\ ~op[o].aborted)
             => /\ op[o].task = TaskOf(o)
                /\ cancel'[TaskOf(o)]
                /\ state' = state
                /\ ~op'[o].timer
                /\ op'[o].task = 0
                /\ registry'[TaskIdOf(o)] = 0
                /\ op'[o].phase = "done"]_vars
  /\ [][\A o \in Ops : op[o].aborted => op'[o].finalized = op[o].finalized]_vars
  /\ [](\A o \in Ops : op[o].aborted => op[o].finalized = 0)

\* C8 witness: after ESC the worker went on to Completed and nothing was
\* finalized.
C8_Witness ==
  \E o \in Ops :
    /\ op[o].aborted
    /\ Status(TaskOf(o)) = COMPLETED
    /\ ThreadEnded(TaskOf(o))
    /\ op[o].finalized = 0

\* C6: the copy get_state() is about to return equals the tracker state as
\* it stood after the last whole write operation (writers blocked on the
\* lock have written nothing of their call yet).
C6_SnapshotNotTorn ==
  rd.pc = "return" => rd.snap = committed

\* C6 witness: get_state() returns a copy taken after a completed
\* set_failed() that followed a completed set_completed().
C6_Witness ==
  /\ rd.pc = "return"
  /\ rd.snap.status = FAILED
  /\ rd.snap.error = TestErrorText
  /\ rd.snap.result = DoneResult
  /\ rd.snap.progress = 100

\* C9 (as claimed): the metadata on the objects changes only when every
\* remote step of this sync has succeeded: a texture set with a valid id
\* exists, every exported texture is in it, and it is associated with the
\* version and its default.
C9_MetadataOnlyAfterFullSync ==
  [][meta' # meta
       => /\ ~up.failed
          /\ up.setId # 0
          /\ \A i \in 1..Len(up.exported) : up.exported[i] \in up.inSet
          /\ up.assoc
          /\ up.dflt]_vars

\* C10 (as claimed): in the selective upload only textures classified
\* modified or new are uploaded; an unchanged texture enters the new set
\* by reference only.
C10_SelectiveUploadsOnlyChanged ==
  up.path = "selective"
    => /\ up.uploaded \subseteq (Classified("modified") \cup Classified("new"))
       /\ up.referenced \subseteq Classified("unchanged")
       /\ up.uploaded \cap up.referenced = {}

\* ------------------------- properties of classify_textures_for_export
Range(seq) == {seq[i] : i \in 1..Len(seq)}

\* Every entry of an analysis, regular and packed.
EntriesOf(an) == Range(an.textures) \cup Range(an.packed)

\* The list(s) of a classification result an entry is in.
ListsOf(res, tex) ==
  {l \in {"unchanged", "modified", "new"} :
     tex \in Range(IF l = "unchanged" THEN res.unchanged
                   ELSE IF l = "modified" THEN res.modified ELSE res.new)}

\* The content hash of an image when its data can be read, "" otherwise.
ContentHash(image) ==
  IF image.present /\ image.data = 1 THEN "H1"
  ELSE IF image.present /\ image.data = 2 THEN "H2"
  ELSE ""

Unreadable(image) == ~image.present \/ image.data = 0

\* A step that is a call of classify_textures_for_export: it leaves the
\* analysis as it is and returns a result.
IsClassifyStep == analysis' = analysis /\ classification' # classification

\* C11: a slot (regular or packed) with a file_id whose stored hash equals
\* the recomputed content hash is put into `unchanged`, and one whose
\* stored and recomputed hashes differ into `modified`, with any_changed.
C11_HashDecidesUnchangedOrModified ==
  [][IsClassifyStep =>
       \A tex \in EntriesOf(analysis) :
         tex.file_id # 0 =>
           /\ (OriginalHash(tex) # "" /\ OriginalHash(tex) = ContentHash(tex.image))
                => ListsOf(classification', tex) = {"unchanged"}
           /\ OriginalHash(tex) # ContentHash(tex.image)
                => /\ ListsOf(classification', tex) = {"modified"}
                   /\ classification'.any_changed]_vars

\* A regular texture was found unchanged (file id 123, stored hash H1,
\* content H1) and a packed one modified (stored H1, content H2).
C11_Witness ==
  /\ classification.runs >= 1
  /\ \E u \in Range(classification.unchanged) :
       /\ u.file_id = 123 /\ u.channels = {}
       /\ u.image.modelibr_original_hash = "H1" /\ u.image.data = 1
  /\ \E m \in Range(classification.modified) :
       /\ m.file_id = 123 /\ m.channels # {}
       /\ m.image.modelibr_original_hash = "H1" /\ m.image.data = 2
  /\ classification.any_changed

\* The roles present in an analysis: the role of every regular slot and
\* every channel role of every packed slot.
CurrentRoles(an) ==
  {t.texture_type : t \in Range(an.textures)}
    \cup UNION {{c[2] : c \in t.channels} : t \in Range(an.packed)}

\* C12: `removed` is the roles of the original texture set minus the roles
\* present in the analysis, and any_changed holds when it is non-empty.
C12_RemovedIsOriginalMinusCurrent ==
  [][IsClassifyStep =>
       /\ classification'.removed = originalTypes \ CurrentRoles(analysis)
       /\ classification'.removed # {} => classification'.any_changed]_vars

\* Original {Albedo, Normal, Roughness}, current {Albedo} with an unchanged
\* Albedo texture: removed = {Normal, Roughness} alone raises any_changed.
C12_Witness ==
  /\ classification.runs >= 1
  /\ classification.removed = {"Normal", "Roughness"}
  /\ classification.current_types = {"Albedo"}
  /\ Len(classification.unchanged) = 1
  /\ classification.modified = << >> /\ classification.new = << >>
  /\ classification.any_changed

\* C13 (as claimed): a slot whose image data cannot be read is classified
\* `new`, with or without a file_id, and every slot gets classified.
C13_UnreadableIsNew ==
  [][IsClassifyStep =>
       \A tex \in EntriesOf(analysis) :
         /\ ListsOf(classification', tex) # {}
         /\ Unreadable(tex.image) => ListsOf(classification', tex) = {"new"}]_vars

\* The entry the previous result holds for the image of tex, if any.
PreviousEntries(tex) ==
  {e \in Range(classification.unchanged) \cup Range(classification.modified)
         \cup Range(classification.new) : e.image_name = tex.image_name}

C15_AnyChangedIffAndEmptyQuiet ==
  [][IsClassifyStep =>
       /\ classification'.any_changed <=>
            \/ classification'.modified # << >>
            \/ classification'.new # << >>
            \/ classification'.removed # {}
       /\ analysis = EmptyAnalysis =>
            /\ ~classification'.any_changed
            /\ ~classification'.any_from_modelibr]_vars

\* C15 (amended): any_changed holds exactly when modified, new or removed
\* is non-empty; an empty analysis gives any_from_modelibr = false, and
\* any_changed = false exactly when no original roles were passed.
C15_AnyChangedIff ==
  [][IsClassifyStep =>
       /\ classification'.any_changed <=>
            \/ classification'.modified # << >>
            \/ classification'.new # << >>
            \/ classification'.removed # {}
       /\ analysis = EmptyAnalysis =>
            /\ classification'.any_changed <=> originalTypes # {}
            /\ ~classification'.any_from_modelibr]_vars

\* A run on a new texture only: any_changed without anything modified or
\* removed; the texture carries no file id.
C15_Witness ==
  /\ classification.runs >= 1
  /\ classification.any_changed
  /\ Len(classification.new) = 1
  /\ classification.modified = << >>
  /\ classification.removed = {}
  /\ ~classification.any_from_modelibr

\* ----------------------------------------- registry, workers, tracker
Terminal == {COMPLETED, FAILED, CANCELLED}

\* C16 (as claimed): has_active_task() is true exactly when some task in
\* the registry has been started and has not reached a terminal status.
C16_ActiveIffStartedNotTerminal ==
  HasActiveTask <=>
    \E t \in RegisteredTasks : thread[t] # 0 /\ Status(t) \notin Terminal

\* Thread k of task t takes a step of _run_wrapper or run().
WorkerMoves(t, k) == Alive(worker[t][k]) /\ worker'[t][k] # worker[t][k]

\* C17: a step of a worker body changes only the worker's own position and
\* locals and its task's tracker state; the scene properties, the objects'
\* metadata and texture slots, the registry and the operators change only
\* in steps of foreground code (scene properties only in a finalization).
C17_WorkersLeaveSceneAlone ==
  [][/\ \A t \in Tasks, k \in Threads :
          WorkerMoves(t, k) =>
            /\ UNCHANGED <<scene, meta, slots, registry, op>>
            /\ UNCHANGED <<cfgVars, thread, cancel>>
            /\ \A u \in Tasks \ {t} : state'[u] = state[u] /\ worker'[u] = worker[u]
     /\ scene' # scene =>
          /\ \E o \in Ops : /\ op[o].phase = "modal"
                            /\ op'[o].finalized = op[o].finalized + 1
          /\ UNCHANGED <<state, worker>>]_vars

\* An upload worker has completed with a version id and has ended, the
\* operator has not ticked yet, and the scene properties are untouched.
C17_Witness ==
  \E o \in Ops :
    /\ op[o].phase = "modal"
    /\ kind[TaskOf(o)] = "upload"
    /\ Status(TaskOf(o)) = COMPLETED
    /\ state[TaskOf(o)].result.version_id > 0
    /\ ThreadEnded(TaskOf(o))
    /\ scene = NewScene

\* C18: when run() has returned without raising, the wrapper leaves a
\* terminal status (and the whole tracker state) as run() set it, and turns
\* a non-terminal one into Completed with progress 1.0.
C18_WrapperCompletesOnlyUnfinished ==
  [][\A t \in Tasks, k \in Threads :
       /\ (worker[t][k].pc = "wrap_check" /\ worker'[t][k].pc # "wrap_check")
            => /\ state'[t] = state[t]
               /\ worker'[t][k].pc =
                    IF Status(t) \in Terminal THEN "dead" ELSE "wrap_complete"
       /\ (worker[t][k].pc = "wrap_complete" /\ worker'[t][k].pc # "wrap_complete")
            => /\ worker'[t][k].pc = "dead"
               /\ state'[t].status = COMPLETED
               /\ state'[t].progress = 100]_vars

\* The polling worker ran through all its iterations, run() returned with
\* status Running, and the wrapper has marked the task Completed.
C18_Witness ==
  /\ kind[TheTask] = "polling"
  /\ ThreadEnded(TheTask)
  /\ Status(TheTask) = COMPLETED
  /\ state[TheTask].progress = 100
  /\ state[TheTask].result = NoResult

\* C19: the progress of a tracker is always within [0, 1]; update() stores
\* min(1, max(0, p)), set_running stores 0 and set_completed stores 1.
C19_ProgressWithinUnitInterval ==
  /\ trk.progress \in 0..100
  /\ \A p \in ProgressInputs \cup {0, 100} :
       Update(trk, {p}, {}, {}).progress =
         (IF p < 0 THEN 0 ELSE IF p > 100 THEN 100 ELSE p)
  /\ SetRunning(trk, "Starting...").progress = 0
  /\ SetCompleted(trk, DoneResult).progress = 100

\* update(progress=1.5) has stored 1.0 on a tracker that is not completed,
\* and a writer is about to store the clamped value of update(-0.5).
C19_Witness ==
  /\ trk.progress = 100
  /\ trk.status # COMPLETED
  /\ \E w \in Writers : wr[w] # << >> /\ Head(wr[w]) = <<"progress", 0>>

\* ------------------------------- properties of analyze_material_textures
\* The separator outputs that are linked to a BSDF input with a texture
\* type (every input is a different one: an input takes one link).
ChannelsLinked(g) ==
  {c \in {"R", "G", "B"} :
     \E s \in Sockets : g[s] = c /\ NodeInputToTextureType(SocketNames[s]) # ""}

\* C20 (as claimed): the image is reported in `packed` exactly when at
\* least two different channel outputs of the separator it feeds are each
\* linked to a sink input; the channel map then has one entry per such
\* channel, mapping it to the role of its sink, and the image is not also
\* in `textures`.
C20_PackedIffTwoChannels ==
  analyzed.done =>
    /\ analyzed.packed <=> Cardinality(ChannelsLinked(graph)) >= 2
    /\ analyzed.packed =>
         /\ {e[1] : e \in analyzed.channels} = ChannelsLinked(graph)
         /\ Cardinality(analyzed.channels) = Cardinality(ChannelsLinked(graph))
         /\ \A e \in analyzed.channels :
              \E s \in Sockets : /\ graph[s] = e[1]
                                 /\ NodeInputToTextureType(SocketNames[s]) = e[2]
         /\ ~analyzed.textures

\* FILENAME_PATTERNS, in the dict's order (the first three roles).
FilenamePatterns ==
  << <<"Albedo", {"albedo", "diffuse", "color", "col", "diff"}>>,
     <<"Normal", {"normal", "nrm", "nor", "norm"}>>,
     <<"Roughness", {"roughness", "rough", "rgh"}>> >>

\* File names, each given by the patterns that occur in it as substrings:
\* wall.png, wall_color.png, wall_normal.png (which also holds "nor" and
\* "norm") and wall_rough_col.png.
FileNames ==
  { {}, {"color", "col"}, {"normal", "nor", "norm"}, {"rough", "col"} }

\* detect_texture_type_from_filename: the first role of the table one of
\* whose patterns occurs in the name, else Albedo.
RECURSIVE DetectFrom(_, _)
DetectFrom(name, i) ==
  IF i > Len(FilenamePatterns) THEN "Albedo"
  ELSE IF FilenamePatterns[i][2] \cap name # {} THEN FilenamePatterns[i][1]
  ELSE DetectFrom(name, i + 1)

DetectTextureTypeFromFilename(name) == DetectFrom(name, 1)

\* C21 (as claimed): an image none of whose links is a recognised
\* connection to the BSDF is still listed in `textures`, with a role the
\* filename table gives (Albedo when no keyword matches).
C21_UnconnectedImageListed ==
  (analyzed.done /\ ImageConnections(graph, linkOrder) = << >>) =>
    /\ analyzed.textures
    /\ \E name \in FileNames :
         analyzed.texture_type = DetectTextureTypeFromFilename(name)

\* The image has several connections and is not a packed texture.
Conflicting(g, order) ==
  LET conns == ImageConnections(g, order)
  IN /\ Len(conns) >= 2
     /\ Len(SelectSeq(conns, LAMBDA c : c.via_separate)) < 2

\* C23 (amended): an image with several connections of which fewer than
\* two run through the separator is listed once, in `textures`; its role
\* is that of its direct connection when exactly one connection is
\* direct, and that of the first traversed connection otherwise. The
\* result is a function of the graph and its link order.
C23_TieBreak ==
  (analyzed.done /\ Conflicting(graph, linkOrder)) =>
    LET conns == ImageConnections(graph, linkOrder)
        direct == SelectSeq(conns, LAMBDA c : ~c.via_separate)
    IN /\ analyzed.textures /\ ~analyzed.packed
       /\ analyzed.texture_type =
            (IF Len(direct) = 1 THEN direct[1].texture_type
             ELSE conns[1].texture_type)
       /\ analyzed = AnalyzeImage(graph, linkOrder)

\* Two direct links, to Roughness and to Metallic: the image is listed
\* as Roughness, the link made first.
C23_Witness ==
  /\ analyzed.done
  /\ graph[1] = "direct" /\ graph[2] = "direct"
  /\ \A s \in Sockets : s > 2 => graph[s] = "none"
  /\ analyzed.textures
  /\ analyzed.texture_type = "Roughness"

\* C23 (as claimed): an image with several conflicting connections is
\* listed once with the role of the first traversed connection.
C23_FirstTraversedWins ==
  (analyzed.done /\ Conflicting(graph, linkOrder)) =>
    /\ analyzed.textures /\ ~analyzed.packed
    /\ analyzed.texture_type =
         ImageConnections(graph, linkOrder)[1].texture_type

\* The role of image i of the material, as the analysis reports it.
RoleOf(i) == mat.nodes[i].link

\* C22 (as claimed): `packable` holds only direct slots with one of the
\* three ORM roles that have a sibling in the list with another of
\* those roles and the same pixel dimensions; it is empty unless two of
\* the roles are present; three same-size sources with the three roles
\* give a list of length 3.
C22_PackableSameSizeSiblings ==
  mat.done =>
    LET listed == Range(mat.packable)
        direct == {i \in ImageIds : RoleOf(i) \in PACKABLE_TEXTURE_TYPES}
    IN /\ \A i \in listed :
            /\ i \in Range(mat.textures)
            /\ RoleOf(i) \in PACKABLE_TEXTURE_TYPES
            /\ \E j \in listed : /\ RoleOf(j) # RoleOf(i)
                                  /\ mat.nodes[j].size = mat.nodes[i].size
       /\ Cardinality({RoleOf(i) : i \in direct}) < 2 => mat.packable = << >>
       /\ ( /\ Cardinality(direct) = 3
            /\ {RoleOf(i) : i \in direct} = PACKABLE_TEXTURE_TYPES
            /\ \A i, j \in direct : mat.nodes[i].size = mat.nodes[j].size )
          => Len(mat.packable) = 3

\* ------------------------------------- properties of channel packing
PackIds == 1..Len(PackRoles)

\* Every source of the packing is present and readable, all of one size.
SameSizeSources(srcs) ==
  /\ \A i \in PackIds : srcs[i].present /\ srcs[i].readable
  /\ \A i, j \in PackIds : srcs[i].height = srcs[j].height

\* The sources that are given are readable and of one size.
SameSizeGiven(srcs) ==
  /\ \A i \in PackIds : srcs[i].present => srcs[i].readable
  /\ \A i, j \in PackIds :
       srcs[i].present /\ srcs[j].present => srcs[i].height = srcs[j].height

\* C24: given same-size sources for AmbientOcclusion, Roughness and
\* Metallic, pack_textures_to_orm returns one image of that size whose
\* R, G and B equal, pixel for pixel at the same position, the first
\* channel of the respective source, with A = 1.0 everywhere.
C24_PackCopiesFirstChannels ==
  (orm.packed.status # "none" /\ SameSizeSources(orm.sources)) =>
    /\ orm.packed.status = "image"
    /\ orm.packed.height = orm.sources[1].height
    /\ Len(orm.packed.pixels) = orm.packed.height
    /\ \A k \in 1..orm.packed.height :
         orm.packed.pixels[k] = <<orm.sources[1].pixels[k][1],
                                  orm.sources[2].pixels[k][1],
                                  orm.sources[3].pixels[k][1], 1>>

\* Three coloured two-row sources, each with different rows, the
\* Roughness source upside down with respect to the other two, packed.
C24_Witness ==
  /\ orm.packed.status = "image"
  /\ SameSizeSources(orm.sources)
  /\ orm.sources[1].pixels = <<Coloured(0), Coloured(1)>>
  /\ orm.sources[2].pixels = <<Coloured(1), Coloured(0)>>
  /\ orm.sources[3].pixels = <<Coloured(0), Coloured(1)>>
  /\ orm.packed.pixels = << <<0, 1, 0, 1>>, <<1, 0, 1, 1>> >>

\* C25: for c in {R, G, B} and same-size sources,
\* extract_channel_from_image(pack_textures_to_orm(sources), c) is an
\* image of the same size whose R, G and B all equal the source packed
\* into c, at the same positions, with A = 1.0.
C25_ExtractInvertsPack ==
  \A c \in 1..3 :
    ( /\ orm.extracted.status # "none"
      /\ orm.packed.status = "image"
      /\ SameSizeGiven(orm.sources)
      /\ orm.sources[c].present
      /\ orm.extracted = ExtractChannelFromImage(orm.packed, c) ) =>
      /\ orm.extracted.status = "image"
      /\ orm.extracted.height = orm.sources[c].height
      /\ Len(orm.extracted.pixels) = orm.sources[c].height
      /\ \A k \in 1..orm.sources[c].height :
           orm.extracted.pixels[k] = Gray(orm.sources[c].pixels[k][1])

\* The G channel extracted from the packing of a coloured Roughness
\* source with rows 1, 0 between two other sources.
C25_Witness ==
  /\ orm.packed.status = "image"
  /\ orm.extracted.status = "image"
  /\ orm.extracted.channel = 2
  /\ SameSizeSources(orm.sources)
  /\ orm.sources[1].pixels = <<Coloured(0), Coloured(0)>>
  /\ orm.sources[2].pixels = <<Coloured(1), Coloured(0)>>
  /\ orm.sources[3].pixels = <<Coloured(0), Coloured(1)>>
  /\ orm.extracted.pixels = <<Gray(1), Gray(0)>>

\* The sources pack_textures_to_orm writes into the output: present,
\* of the output's size.
Packed(srcs) ==
  {i \in PackIds : srcs[i].present /\ srcs[i].height = orm.packed.height}

C27_PackAlwaysReturnsImage ==
  orm.packed.status # "none" =>
    /\ orm.packed.status = "image"
    /\ \A i \in PackIds :
         LET ch == ChannelOf(orm.packed.pixels, ORM_CHANNEL_MAPPING(PackRoles[i]))
             src == orm.sources[i]
         IN IF src.present /\ src.readable /\ src.height = orm.packed.height
            THEN ch = ChannelOf(src.pixels, 0)
            ELSE \A k \in 1..Len(ch) : ch[k] = 1

\* ---------------------------------------- properties of the removal
\* C28 (as claimed): when a role of the objects' original texture set is
\* no longer present in the materials, _handle_textures does not reuse
\* the original texture set.
C28_RemovedRoleIsAChange ==
  up.path = "link" => serverRoles \subseteq Present

\* ------------------------------- properties of the shared task ids
\* C29 (as claimed): a task that an operator has registered and started
\* stays in the registry under its id until that operator finishes; no
\* other operator's register_task or _finish takes it out.
C29_RegisteredUntilOwnFinish ==
  \A o \in Ops :
    (op[o].phase = "modal" /\ op[o].task # 0) =>
      registry[TaskIdOf(o)] = op[o].task

\* ------------------------- properties of the classification's lists
\* How often x occurs in a list.
Occurrences(seq, x) == Cardinality({i \in 1..Len(seq) : seq[i] = x})

\* C30: a call of classify_textures_for_export leaves the analysis as it
\* was, and puts every entry of `textures` and of `packed` into exactly
\* one of `unchanged`, `modified`, `new`, exactly once; the three lists
\* hold nothing else.
C30_EachEntryInOneList ==
  [][classification' # classification =>
       /\ analysis' = analysis
       /\ \A tex \in EntriesOf(analysis) :
            Occurrences(classification'.unchanged, tex)
              + Occurrences(classification'.modified, tex)
              + Occurrences(classification'.new, tex) = 1
       /\ Range(classification'.unchanged) \cup Range(classification'.modified)
            \cup Range(classification'.new) \subseteq EntriesOf(analysis)
       /\ Len(classification'.unchanged) + Len(classification'.modified)
            + Len(classification'.new)
              = Len(analysis.textures) + Len(analysis.packed)]_vars

\* A regular texture and a packed texture have been classified into
\* different lists, the regular one as new.
C30_Witness ==
  /\ classification.runs >= 1
  /\ Len(analysis.textures) = 1 /\ Len(analysis.packed) = 1
  /\ classification.new = analysis.textures
  /\ classification.unchanged = analysis.packed

====
